---- MODULE Spec2Model ----
(***************************************************************************)
(* Model of the wxawebcat fetch-and-classify pipeline:                     *)
(*   - scripts/wxawebcat_web_fetcher_db.py  (the fetcher, prog = "fetch")  *)
(*   - scripts/wxawebcat_classifier_db.py   (store-backed classifier,      *)
(*                                           prog = "db")                  *)
(*   - wxawebcat_fetcher_enhanced.py        (file-based classifier,        *)
(*                                           prog = "file")                *)
(*   - scripts/wxawebcat_db.py              (the SQLite store)             *)
(* Each asyncio task is cut at its await points; the code between two      *)
(* awaits is one atomic action.                                            *)
(***************************************************************************)
EXTENDS Integers, Sequences, FiniteSets, TLC

VARIABLES
    prog,       \* which script is running: "fetch", "db" or "file"
    db,         \* committed contents of the SQLite store
    lastTxn,    \* the last get_connection write block: what it ran and how it ended
    pc,         \* position of the script's main coroutine
    pos,        \* number of input domains already streamed (fetcher)
    tasks,      \* the tasks of the current asyncio.gather, one per batch entry
    dns_sem,    \* free permits of dns_sem
    http_sem,   \* free permits of http_sem
    stats,      \* FetchStats
    mode,       \* classifier: "oneshot" or "watch" (cfg.watch_mode)
    iteration,  \* classifier: watch-loop iteration, or number of the run
    cache,      \* classifier: the in-memory content-hash cache (a dict)
    selected,   \* store-backed classifier: the list classify_batch works on
    idx,        \* store-backed classifier: position in `selected`
    results,    \* store-backed classifier: the results not yet committed
    metrics,    \* classifier: Metrics of the current pass
    llm_sem,    \* classifier: free permits of llm_sem
    llm_calls,  \* requests sent to the inference endpoint, per fqdn: total and in this pass
    last_reply, \* the reply the last finished inference request got
    out_files,  \* file-based classifier: the result file of each record, if any
    error_log,  \* file-based classifier: the append-only error log
    cache_file, \* file-based classifier: the saved content-hash cache
    file_sem,   \* file-based classifier: free permits of file_sem
    pool        \* fetcher: the DNSResolverPool, its callers and the loop's clock

fetchVars == <<pos, dns_sem, http_sem, stats, pool>>
fileVars == <<out_files, error_log, cache_file, file_sem>>
classVars == <<mode, iteration, cache, selected, idx, results, metrics, llm_sem,
               llm_calls, last_reply, fileVars>>
vars == <<prog, db, lastTxn, pc, tasks, fetchVars, classVars>>

(***************************************************************************)
(* Bounds of the model                                                     *)
(***************************************************************************)
NumDomains == 4         \* length of the input domain list of a fetch run
batch_size == 3         \* cfg.batch_size as configured for the run
dns_concurrency == 1    \* cfg.dns_concurrency as configured for the run
fetch_concurrency == 1  \* cfg.fetch_concurrency as configured for the run
NumRecords == 4         \* number of fetch records the classifier finds
MaxIter == 2            \* watch-loop iterations (or runs) followed
llm_concurrency == 1    \* cfg.llm_concurrency as configured for the run
file_concurrency == 2   \* cfg.file_concurrency as configured for the run
NumCallers == 2         \* tasks that call get_resolver
NumResolvers == 2       \* len(cfg.dns_servers)
dns_delay == 2          \* cfg.dns_delay_ms as configured, in ticks of the clock
MaxClock == 6           \* ticks of the clock followed
MaxGrants == 3          \* calls of get_resolver followed

None == "None"

\* A coroutine's return value None, where the other values are records.
NoResult == [none |-> TRUE]

Min(a, b) == IF a < b THEN a ELSE b

Range(s) == {s[k] : k \in 1..Len(s)}

(***************************************************************************)
(* The store (wxawebcat_db.py)                                             *)
(***************************************************************************)
\* init_database: the three empty tables; next_id is the AUTOINCREMENT
\* counter of domains.id.
EmptyDb ==
    [domains |-> <<>>, classifications |-> <<>>, content_hash_cache |-> <<>>,
     next_id |-> 1]

HasDomain(conn, fqdn) == \E k \in 1..Len(conn.domains) : conn.domains[k].fqdn = fqdn

DomainRows(conn, fqdn) == {k \in 1..Len(conn.domains) : conn.domains[k].fqdn = fqdn}

\* An upsert by INSERT OR REPLACE: the conflicting row is deleted and a new
\* one inserted, with a new id and the column defaults.
UpsertDomain_replace(conn, result) ==
    [conn EXCEPT !.domains =
        Append(SelectSeq(conn.domains, LAMBDA row : row.fqdn # result.fqdn),
               [id |-> conn.next_id, fqdn |-> result.fqdn,
                dns_data |-> result.dns, http_data |-> result.http,
                fetch_status |-> result.fetch_status, classified |-> 0]),
     !.next_id = conn.next_id + 1]

\* INSERT INTO domains ... ON CONFLICT(fqdn) DO UPDATE SET dns_data, http_data,
\* fetched_at, fetch_status, fetch_error: the statement of batch_insert_domains
\* and of insert_domain.  id, classified and classified_at are not in the SET
\* list, so a conflicting row keeps them.
UpsertDomain(conn, result) ==
    IF HasDomain(conn, result.fqdn)
    THEN [conn EXCEPT !.domains =
            [k \in 1..Len(conn.domains) |->
                IF conn.domains[k].fqdn = result.fqdn
                THEN [conn.domains[k] EXCEPT !.dns_data = result.dns,
                                             !.http_data = result.http,
                                             !.fetch_status = result.fetch_status]
                ELSE conn.domains[k]]]
    ELSE [conn EXCEPT !.domains =
            Append(conn.domains,
                   [id |-> conn.next_id, fqdn |-> result.fqdn,
                    dns_data |-> result.dns, http_data |-> result.http,
                    fetch_status |-> result.fetch_status, classified |-> 0]),
          !.next_id = conn.next_id + 1]

\* batch_insert_domains: one upsert per result, in order, on the open
\* connection.  fault = k > 0 means the k-th conn.execute raises (the store is
\* locked, full or gone); fault = 0 means none does.  The result is the
\* connection's uncommitted image and whether the block raised.
RECURSIVE ExecUpserts(_, _, _, _)
ExecUpserts(conn, rows, k, fault) ==
    IF k > Len(rows) THEN [conn |-> conn, raised |-> FALSE]
    ELSE IF k = fault THEN [conn |-> conn, raised |-> TRUE]
    ELSE ExecUpserts(UpsertDomain(conn, rows[k]), rows, k + 1, fault)

batch_insert_domains(conn, rows, fault) == ExecUpserts(conn, rows, 1, fault)

\* A get_connection whose connection runs in autocommit: what the statements
\* wrote before the raise stays.
get_connection_autocommit(committed, body) == body.conn

\* get_connection: commit when the with-body ends normally, rollback and
\* re-raise when it raises.  `committed` is the store before the block, `body`
\* the outcome of the statements run on the connection.
get_connection(committed, body) ==
    IF body.raised THEN committed ELSE body.conn

(***************************************************************************)
(* The fetcher (wxawebcat_web_fetcher_db.py)                               *)
(***************************************************************************)
\* The input list of a run: distinct sanitized names, as label sequences.
DomainCatalog ==
    << <<"alpha", "com">>, <<"beta", "org">>, <<"gamma", "net">>,
       <<"delta", "io">>, <<"omega", "info">> >>

InputDomains == SubSeq(DomainCatalog, 1, NumDomains)

\* What the resolver does with the queries of one domain.  "answer": the A
\* query returns records.  The DNSErrors: every query raises
\* aiodns.error.DNSError with that reason.  "raise": a query raises something
\* that is not a DNSError (for example the UnicodeError of a name that cannot
\* be IDNA-encoded).
DNSErrors == {"NXDOMAIN", "SERVFAIL", "TIMEOUT", "ERROR", "NODATA"}
DnsEnv == {"answer", "raise"} \cup DNSErrors

\* Each resolver.query_dns call sits in its own try/except DNSError: pass
\* (lines 105-158), so no DNSError reaches the outer handler of line 160.
OuterDNSError(env) == FALSE

\* The world behind the input list.  The first two names of the catalogue
\* are of sites that may do anything; the others always resolve, and answer
\* a request with a plain page or let it time out.
Unreliable(fqdn) == fqdn \in {DomainCatalog[1], DomainCatalog[2]}

DnsEnvOf(fqdn) == IF Unreliable(fqdn) THEN DnsEnv ELSE {"answer"}

dns_lookup(env) ==
    [rcode |-> IF OuterDNSError(env)
               THEN (IF env = "NXDOMAIN" THEN "NXDOMAIN"
                     ELSE IF env = "SERVFAIL" THEN "SERVFAIL" ELSE "ERROR")
               ELSE "NOERROR",
     a |-> IF env = "answer" THEN <<"192.0.2.1">> ELSE <<>>,
     aaaa |-> <<>>,
     cname |-> <<>>,
     mx |-> <<>>]

\* What one client.get can end in: a response (one of Pages) or an exception.
\* A page's texts are sequences of characters; a keyword stands as one symbol.
Pages ==
    { [status |-> 200, content_type |-> "text/html", waf |-> FALSE,
       title |-> <<"h", "i">>, description |-> <<>>, text |-> <<"h", "i", " ", "x">>],
      [status |-> 403, content_type |-> "text/html", waf |-> TRUE,
       title |-> <<"captcha">>, description |-> <<>>, text |-> <<"captcha">>] }

HttpFailures == {"timeout", "connect_error", "pool_timeout", "too_many_redirects", "other"}

PagesOf(fqdn) ==
    IF Unreliable(fqdn) THEN Pages ELSE {page \in Pages : page.status = 200}

HttpFailuresOf(fqdn) == IF Unreliable(fqdn) THEN HttpFailures ELSE {"timeout"}

\* http_fetch, lines 208-212: the result before any request.
HttpResult0 ==
    [status |-> 0, content_type |-> None, title |-> <<>>, body_snippet |-> <<>>,
     meta_description |-> <<>>, blocked |-> FALSE, block_reason |-> None,
     error |-> None]

\* http_fetch, lines 222-239: a response was received.
OnResponse(result, page) ==
    [result EXCEPT !.status = page.status,
                   !.content_type = page.content_type,
                   !.title = IF page.content_type = "text/html" THEN page.title ELSE @,
                   !.meta_description = IF page.content_type = "text/html"
                                        THEN page.description ELSE @,
                   !.body_snippet = IF page.content_type = "text/html"
                                    THEN page.text ELSE @,
                   !.blocked = IF page.status \in {403, 429} /\ page.waf THEN TRUE ELSE @,
                   !.block_reason = IF page.status \in {403, 429} /\ page.waf
                                    THEN "waf_or_captcha" ELSE @]

\* http_fetch, lines 243-257: the except clauses in order.  httpx.PoolTimeout
\* is a TimeoutException, so the first clause takes it.
OnFailure(result, failure) ==
    IF failure \in {"timeout", "pool_timeout"}
    THEN [result EXCEPT !.status = 408, !.error = "timeout"]
    ELSE [result EXCEPT !.status = 0, !.error = failure]

\* An early return that is never taken.
DnsUnresolved_never(dns_result) == FALSE

\* http_fetch, line 214: no request at all for an unresolved domain.
DnsUnresolved(dns_result) ==
    dns_result.rcode # "NOERROR" \/ (dns_result.a = <<>> /\ dns_result.aaaa = <<>>)

\* A status that also looks at the error text of the HTTP result.
FetchStatus_by_error(dns_result, http_result) ==
    IF dns_result.rcode # "NOERROR" THEN "dns_failed"
    ELSE IF http_result.status = 0 \/ http_result.error # None THEN "http_failed"
    ELSE IF http_result.blocked THEN "blocked"
    ELSE "success"

\* fetch_domain, lines 277-285.
FetchStatus(dns_result, http_result) ==
    IF dns_result.rcode # "NOERROR" THEN "dns_failed"
    ELSE IF http_result.status = 0 THEN "http_failed"
    ELSE IF http_result.blocked THEN "blocked"
    ELSE "success"

\* process_one, lines 494-503: the counters after a returned FetchResult.
CountResult(s, fetch_status) ==
    [s EXCEPT !.dns_failed = IF fetch_status = "dns_failed" THEN @ + 1 ELSE @,
              !.http_failed = IF fetch_status = "http_failed" THEN @ + 1 ELSE @,
              !.blocked = IF fetch_status = "blocked" THEN @ + 1 ELSE @,
              !.successful = IF fetch_status \notin {"dns_failed", "http_failed", "blocked"}
                             THEN @ + 1 ELSE @,
              !.completed = @ + 1]

Stats0 == [completed |-> 0, dns_failed |-> 0, http_failed |-> 0, blocked |-> 0, successful |-> 0]

\* The last get_connection block that wrote: the store it started from, the
\* batch it was given, the statement the store refused (0: none) and whether
\* the block raised.
NoTxn ==
    [kind |-> "none", before |-> EmptyDb, results |-> <<>>, fault |-> 0,
     raised |-> FALSE]

Task0(domain) ==
    [pc |-> "start", fqdn |-> domain, env |-> None, dns |-> None, http |-> None,
     requests |-> <<>>, dns_entries |-> 0, ret |-> NoResult]

\* Statements of the classifier's batch_insert (scripts/wxawebcat_classifier_db.py)
\* batch_insert, lines 347-361: INSERT INTO classifications.  category is
\* NOT NULL in the schema: binding None raises sqlite3.IntegrityError.
InsertClassification(conn, r) ==
    IF r.category = None
    THEN [conn |-> conn, raised |-> TRUE]
    ELSE [conn |-> [conn EXCEPT !.classifications =
                        Append(@, [id |-> Len(@) + 1, domain_id |-> r.domain_id,
                                   fqdn |-> r.fqdn, method |-> r.method,
                                   category |-> r.category,
                                   confidence |-> r.confidence,
                                   reason |-> r.reason,
                                   content_hash |-> r.content_hash])],
          raised |-> FALSE]

\* A batch_insert whose UPDATE matches no row.
MarkClassified_no_row(conn, r) == [conn |-> conn, raised |-> FALSE]

\* batch_insert, lines 364-368: UPDATE domains SET classified = 1 WHERE id = ?
MarkClassified(conn, r) ==
    [conn |-> [conn EXCEPT !.domains =
                [k \in 1..Len(conn.domains) |->
                    IF conn.domains[k].id = r.domain_id
                    THEN [conn.domains[k] EXCEPT !.classified = 1]
                    ELSE conn.domains[k]]],
     raised |-> FALSE]

\* A batch_insert that leaves the cache table alone.
ReplaceCacheRow_not_written(conn, r) == [conn |-> conn, raised |-> FALSE]

\* batch_insert, lines 371-381: INSERT OR REPLACE INTO content_hash_cache
ReplaceCacheRow(conn, r) ==
    LET row == [content_hash |-> r.content_hash, category |-> r.category,
                confidence |-> r.confidence, example_fqdn |-> r.fqdn]
        kept == SelectSeq(conn.content_hash_cache,
                          LAMBDA c : c.content_hash # r.content_hash)
    IN [conn |-> [conn EXCEPT !.content_hash_cache = Append(kept, row)],
        raised |-> FALSE]

\* The conn.execute calls batch_insert makes for one result, in order.
StatementsOf(r) ==
    IF r = NoResult THEN <<>>
    ELSE <<[op |-> "insert_classification", r |-> r],
           [op |-> "update_domain", r |-> r]>>
         \o (IF r.content_hash # <<>> /\ r.method = "llm"
             THEN <<[op |-> "replace_cache", r |-> r]>> ELSE <<>>)

RECURSIVE Statements(_)
Statements(rows) ==
    IF rows = <<>> THEN <<>> ELSE StatementsOf(Head(rows)) \o Statements(Tail(rows))

Execute(conn, stmt) ==
    IF stmt.op = "insert_classification" THEN InsertClassification(conn, stmt.r)
    ELSE IF stmt.op = "update_domain" THEN MarkClassified(conn, stmt.r)
    ELSE ReplaceCacheRow(conn, stmt.r)

\* The statements run in order; the fault-th one raises for a reason of the
\* store's own (locked, full, gone), fault = 0 meaning none does.
RECURSIVE ExecStatements(_, _, _, _)
ExecStatements(conn, stmts, k, fault) ==
    IF k > Len(stmts) THEN [conn |-> conn, raised |-> FALSE]
    ELSE IF k = fault THEN [conn |-> conn, raised |-> TRUE]
    ELSE LET done == Execute(conn, stmts[k]) IN
         IF done.raised THEN done
         ELSE ExecStatements(done.conn, stmts, k + 1, fault)

batch_insert(conn, rows, fault) == ExecStatements(conn, Statements(rows), 1, fault)

\* What an earlier run over the same list stored for a domain that could not
\* be resolved.
EarlierResult(domain) ==
    [fqdn |-> domain, dns |-> dns_lookup("NXDOMAIN"), http |-> HttpResult0,
     fetch_status |-> FetchStatus(dns_lookup("NXDOMAIN"), HttpResult0)]

\* What an earlier run stored for a domain that answered with a page.
EarlierSuccess(domain) ==
    LET dns_result == dns_lookup("answer")
        http_result == OnResponse(HttpResult0, CHOOSE page \in Pages : page.status = 200)
    IN [fqdn |-> domain, dns |-> dns_result, http |-> http_result,
        fetch_status |-> FetchStatus(dns_result, http_result)]

\* The store after an earlier fetch run in which the third domain answered,
\* followed by a classifier pass that classified it.
ClassifiedDb ==
    LET fetched == batch_insert_domains(EmptyDb,
                       [k \in 1..Len(InputDomains) |->
                           IF k = 3 THEN EarlierSuccess(InputDomains[k])
                           ELSE EarlierResult(InputDomains[k])],
                       0).conn
    IN batch_insert(fetched,
                    <<[domain_id |-> 3, fqdn |-> InputDomains[3], method |-> "llm",
                       category |-> "Business", confidence |-> 90,
                       reason |-> <<"rationale">>, content_hash |-> <<>>]>>,
                    0).conn

\* The store an earlier run over InputDomains left when it returned a result
\* for the domains from position `from` on.
EarlierDb(from) ==
    batch_insert_domains(EmptyDb,
        [k \in 1..(Len(InputDomains) - from + 1) |->
            EarlierResult(InputDomains[from + k - 1])],
        0).conn

\* A first run starts on the empty store; a later run starts on what the
\* run before it left: a row for every domain, or for every domain but the
\* first, whose process_one ended in its except clause, or rows of which a
\* classifier pass has classified one.
InitFetch ==
    /\ prog = "fetch"
    /\ iteration \in {1, 2}
    /\ db \in (IF iteration = 1 THEN {EmptyDb}
               ELSE {EarlierDb(1), EarlierDb(2), ClassifiedDb})
    /\ lastTxn = NoTxn
    /\ pc = "stream"
    /\ pos = 0
    /\ tasks = <<>>
    /\ dns_sem = dns_concurrency
    /\ http_sem = fetch_concurrency
    /\ stats = Stats0
    /\ pool = None
    /\ mode = None /\ cache = <<>> /\ selected = <<>> /\ idx = 0
    /\ results = <<>> /\ metrics = None /\ llm_sem = 0 /\ llm_calls = <<>>
    /\ last_reply = None
    /\ out_files = <<>> /\ error_log = <<>> /\ cache_file = <<>> /\ file_sem = 0

\* main_async, lines 516-538: the next batch of the stream is handed to
\* asyncio.gather, one process_one task per domain.
StartBatch ==
    /\ prog = "fetch" /\ pc = "stream" /\ pos < Len(InputDomains)
    /\ tasks' = [k \in 1..Min(batch_size, Len(InputDomains) - pos) |->
                    Task0(InputDomains[pos + k])]
    /\ pc' = "gather"
    /\ UNCHANGED <<pool, prog, db, lastTxn, pos, dns_sem, http_sem, stats, classVars>>

\* An exit of the HTTP stage that hands back one permit more than it took.
ReleaseHttp_twice(sem) == sem + 2

\* An exit of the HTTP stage that keeps the permit.
ReleaseHttp_kept(sem) == sem

\* fetch_domain, line 274: the exit of "async with http_sem" gives the permit
\* back, on a return as on a raise.
ReleaseHttp(sem) == sem + 1

\* fetch_domain, line 269: the task takes a DNS permit.
AcquireDns(i) ==
    /\ prog = "fetch" /\ pc = "gather"
    /\ tasks[i].pc = "start"
    /\ dns_sem > 0
    /\ dns_sem' = dns_sem - 1
    /\ tasks' = [tasks EXCEPT ![i].pc = "dns", ![i].dns_entries = @ + 1]
    /\ UNCHANGED <<pool, prog, db, lastTxn, pc, pos, http_sem, stats, classVars>>

\* A lookup whose task keeps the DNS permit on its way to the HTTP stage.
DnsDone_permit_kept(i) ==
    /\ prog = "fetch" /\ pc = "gather"
    /\ tasks[i].pc = "dns"
    /\ dns_sem' = dns_sem
    /\ \E env \in DnsEnvOf(tasks[i].fqdn) :
        IF env = "raise"
        THEN /\ tasks' = [tasks EXCEPT ![i].pc = "returned", ![i].env = env]
             /\ stats' = [stats EXCEPT !.completed = @ + 1]
        ELSE /\ tasks' = [tasks EXCEPT ![i].pc = "http_wait", ![i].env = env,
                                       ![i].dns = dns_lookup(env)]
             /\ stats' = stats
    /\ UNCHANGED <<pool, prog, db, lastTxn, pc, pos, http_sem, classVars>>

\* fetch_domain, lines 271-273: the lookup ends and the DNS permit is
\* released.  A non-DNSError exception leaves fetch_domain and is caught by
\* process_one (lines 506-509), which returns None.
DnsDone(i) ==
    /\ prog = "fetch" /\ pc = "gather"
    /\ tasks[i].pc = "dns"
    /\ dns_sem' = dns_sem + 1
    /\ \E env \in DnsEnvOf(tasks[i].fqdn) :
        IF env = "raise"
        THEN /\ tasks' = [tasks EXCEPT ![i].pc = "returned", ![i].env = env]
             /\ stats' = [stats EXCEPT !.completed = @ + 1]
        ELSE /\ tasks' = [tasks EXCEPT ![i].pc = "http_wait", ![i].env = env,
                                       ![i].dns = dns_lookup(env)]
             /\ stats' = stats
    /\ UNCHANGED <<pool, prog, db, lastTxn, pc, pos, http_sem, classVars>>

\* fetch_domain, lines 287-292, and process_one, lines 494-504.
Returned(t, http_result) ==
    [t EXCEPT !.pc = "returned", !.http = http_result,
              !.ret = [fqdn |-> t.fqdn, dns |-> t.dns, http |-> http_result,
                       fetch_status |-> FetchStatus(t.dns, http_result)]]

\* fetch_domain, line 274, and http_fetch up to its first await: the task
\* takes an HTTP permit; an unresolved domain returns at line 215 without a
\* request, a resolved one sends the HTTPS request.
AcquireHttp(i) ==
    /\ prog = "fetch" /\ pc = "gather"
    /\ tasks[i].pc = "http_wait"
    /\ http_sem > 0
    /\ IF DnsUnresolved(tasks[i].dns)
       THEN /\ tasks' = [tasks EXCEPT ![i] = Returned(@, HttpResult0)]
            /\ stats' = CountResult(stats, FetchStatus(tasks[i].dns, HttpResult0))
            /\ http_sem' = http_sem
       ELSE /\ tasks' = [tasks EXCEPT ![i].pc = "https", ![i].http = HttpResult0,
                                      ![i].requests = Append(@, "https")]
            /\ stats' = stats
            /\ http_sem' = http_sem - 1
    /\ UNCHANGED <<pool, prog, db, lastTxn, pc, pos, dns_sem, classVars>>

\* A loop without the break of line 241: the HTTP request is sent whatever
\* the HTTPS request came to.
HttpsDone_no_break(i) ==
    /\ prog = "fetch" /\ pc = "gather"
    /\ tasks[i].pc = "https"
    /\ \E r \in {OnResponse(tasks[i].http, page) : page \in PagesOf(tasks[i].fqdn)}
             \cup {OnFailure(tasks[i].http, failure) :
                       failure \in HttpFailuresOf(tasks[i].fqdn)} :
            tasks' = [tasks EXCEPT ![i].pc = "http", ![i].http = r,
                                   ![i].requests = Append(@, "http")]
    /\ UNCHANGED <<pool, prog, db, lastTxn, pc, pos, dns_sem, http_sem, stats, classVars>>

\* http_fetch, lines 219-259, first turn of the loop: the HTTPS request ends.
HttpsDone(i) ==
    /\ prog = "fetch" /\ pc = "gather"
    /\ tasks[i].pc = "https"
    /\ \/ \E page \in PagesOf(tasks[i].fqdn) :
            LET r == OnResponse(tasks[i].http, page) IN
            /\ tasks' = [tasks EXCEPT ![i] = Returned(@, r)]
            /\ stats' = CountResult(stats, FetchStatus(tasks[i].dns, r))
            /\ http_sem' = ReleaseHttp(http_sem)
       \/ \E failure \in HttpFailuresOf(tasks[i].fqdn) :
            /\ tasks' = [tasks EXCEPT ![i].pc = "http",
                                      ![i].http = OnFailure(@, failure),
                                      ![i].requests = Append(@, "http")]
            /\ stats' = stats
            /\ http_sem' = http_sem
    /\ UNCHANGED <<pool, prog, db, lastTxn, pc, pos, dns_sem, classVars>>

\* http_fetch, lines 219-261, second turn of the loop: the HTTP request ends,
\* the loop is over either way.
HttpDone(i) ==
    /\ prog = "fetch" /\ pc = "gather"
    /\ tasks[i].pc = "http"
    /\ \E r \in {OnResponse(tasks[i].http, page) : page \in PagesOf(tasks[i].fqdn)}
             \cup {OnFailure(tasks[i].http, failure) :
                       failure \in HttpFailuresOf(tasks[i].fqdn)} :
            /\ tasks' = [tasks EXCEPT ![i] = Returned(@, r)]
            /\ stats' = CountResult(stats, FetchStatus(tasks[i].dns, r))
    /\ http_sem' = ReleaseHttp(http_sem)
    /\ UNCHANGED <<pool, prog, db, lastTxn, pc, pos, dns_sem, classVars>>

\* main_async, line 541: the None results are dropped.
RECURSIVE FilterNone(_)
FilterNone(rets) ==
    IF rets = <<>> THEN <<>>
    ELSE IF Head(rets) = NoResult THEN FilterNone(Tail(rets))
    ELSE <<Head(rets)>> \o FilterNone(Tail(rets))

BatchResults == FilterNone([k \in 1..Len(tasks) |-> tasks[k].ret])

\* A wait that ends with the first task that is done.
GatherDone_first == \E k \in 1..Len(tasks) : tasks[k].pc = "returned"

\* main_async, line 538: await asyncio.gather(...) returns when every task
\* of the batch has returned.
GatherDone == \A k \in 1..Len(tasks) : tasks[k].pc = "returned"

\* main_async, lines 538-557: gather has every result; the batch is written
\* in one get_connection block.  A raise inside the block leaves main_async.
CommitBatch ==
    /\ prog = "fetch" /\ pc = "gather"
    /\ GatherDone
    /\ LET batch_results == BatchResults IN
       IF batch_results = <<>>
       THEN /\ db' = db
            /\ lastTxn' = lastTxn
            /\ pc' = IF pos + Len(tasks) < Len(InputDomains) THEN "stream" ELSE "done"
       ELSE \E fault \in 0..Len(batch_results) :
            LET body == batch_insert_domains(db, batch_results, fault) IN
            /\ db' = get_connection(db, body)
            /\ lastTxn' = [kind |-> "domains", before |-> db,
                           results |-> batch_results, fault |-> fault,
                           raised |-> body.raised]
            /\ pc' = IF body.raised THEN "aborted"
                     ELSE IF pos + Len(tasks) < Len(InputDomains) THEN "stream"
                     ELSE "done"
    /\ pos' = pos + Len(tasks)
    /\ UNCHANGED <<pool, prog, tasks, dns_sem, http_sem, stats, classVars>>

NextFetch ==
    \/ StartBatch
    \/ \E i \in 1..Len(tasks) : AcquireDns(i)
    \/ \E i \in 1..Len(tasks) : DnsDone(i)
    \/ \E i \in 1..Len(tasks) : AcquireHttp(i)
    \/ \E i \in 1..Len(tasks) : HttpsDone(i)
    \/ \E i \in 1..Len(tasks) : HttpDone(i)
    \/ CommitBatch

SpecFetch == InitFetch /\ [][NextFetch]_vars

(***************************************************************************)
(* DNSResolverPool.get_resolver (wxawebcat_web_fetcher_db.py), on its own: *)
(* callers, the lock, the event loop's clock in ticks                      *)
(***************************************************************************)
Caller0 == [pc |-> "idle", wake |-> 0]

\* DNSResolverPool.__init__, lines 175-184.  delay is delay_seconds in ticks,
\* now what the loop's clock shows when the pool is made.
Pool0(delay, now) ==
    [delay_seconds |-> delay, index |-> 0, lock |-> 0, last_query_time |-> 0,
     clock |-> now, callers |-> [c \in 1..NumCallers |-> Caller0], grants |-> <<>>]

InitPool ==
    /\ prog = "pool"
    /\ pool \in {Pool0(delay, now) : delay \in {0, dns_delay}, now \in {0, dns_delay}}
    /\ db = EmptyDb /\ lastTxn = NoTxn /\ pc = None /\ tasks = <<>>
    /\ pos = 0 /\ dns_sem = 0 /\ http_sem = 0 /\ stats = None
    /\ mode = None /\ iteration = 0 /\ cache = <<>> /\ selected = <<>> /\ idx = 0
    /\ results = <<>> /\ metrics = None /\ llm_sem = 0 /\ llm_calls = <<>>
    /\ last_reply = None
    /\ out_files = <<>> /\ error_log = <<>> /\ cache_file = <<>> /\ file_sem = 0

notPool == <<prog, db, lastTxn, pc, tasks, pos, dns_sem, http_sem, stats, classVars>>

\* A lock that lets every caller in.
LockFree_always(p) == TRUE

\* get_resolver, line 188: "async with self.lock" goes on when nobody holds
\* the lock.
LockFree(p) == p.lock = 0

\* get_resolver, lines 199-201, with the end of the "async with": the caller
\* gets the resolver at index, index moves round-robin, the lock is released.
\* `stamp` is the time written to last_query_time just before (line 197), or
\* the old one when there is no rate limit.
Grant(p, c, stamp) ==
    [p EXCEPT !.last_query_time = stamp,
              !.index = (p.index + 1) % NumResolvers,
              !.lock = 0,
              !.callers[c] = [pc |-> "idle", wake |-> 0],
              !.grants = Append(@, [caller |-> c, time |-> p.clock,
                                    resolver |-> p.index])]

\* The loop's clock moves on.
PoolTick ==
    /\ prog = "pool"
    /\ pool.clock < MaxClock
    /\ pool' = [pool EXCEPT !.clock = @ + 1]
    /\ UNCHANGED notPool

\* get_resolver, lines 188-201 up to the sleep: the caller takes the lock,
\* reads the clock, and either sleeps for what is left of the delay, holding
\* the lock, or is granted the resolver at once.
PoolEnter(c) ==
    /\ prog = "pool"
    /\ pool.callers[c].pc = "idle"
    /\ Len(pool.grants) < MaxGrants
    /\ LockFree(pool)
    /\ LET now == pool.clock
           time_since_last == now - pool.last_query_time
       IN pool' =
            IF pool.delay_seconds > 0
            THEN IF time_since_last < pool.delay_seconds
                 THEN [pool EXCEPT
                         !.lock = c,
                         !.callers[c] =
                             [pc |-> "sleep",
                              wake |-> now + (pool.delay_seconds - time_since_last)]]
                 ELSE Grant(pool, c, now)
            ELSE Grant(pool, c, pool.last_query_time)
    /\ UNCHANGED notPool

\* get_resolver, lines 196-201: asyncio.sleep is over, not before its time;
\* the clock is read again and the resolver is granted.
PoolWake(c) ==
    /\ prog = "pool"
    /\ pool.callers[c].pc = "sleep"
    /\ pool.clock >= pool.callers[c].wake
    /\ pool' = Grant(pool, c, pool.clock)
    /\ UNCHANGED notPool

NextPool ==
    \/ PoolTick
    \/ \E c \in 1..NumCallers : PoolEnter(c)
    \/ \E c \in 1..NumCallers : PoolWake(c)

SpecPool == InitPool /\ [][NextPool]_vars

(***************************************************************************)
(* Texts.  A text is a sequence of characters; a keyword of one of the     *)
(* pattern lists stands as one symbol.  None and "" are both <<>>: the     *)
(* classifiers read every text field as (value or "").                     *)
(***************************************************************************)
Rep(t, n) == [k \in 1..n |-> t]

Take(s, n) == SubSeq(s, 1, Min(n, Len(s)))

IsSpace(t) == t \in {" ", "\t", "\n"}

Lower(t) == IF t = "X" THEN "x" ELSE t

\* str.lower()
LowerText(s) == [k \in 1..Len(s) |-> Lower(s[k])]

RECURSIVE LStrip(_)
LStrip(s) == IF s # <<>> /\ IsSpace(Head(s)) THEN LStrip(Tail(s)) ELSE s

RECURSIVE RStrip(_)
RStrip(s) ==
    IF s # <<>> /\ IsSpace(s[Len(s)]) THEN RStrip(SubSeq(s, 1, Len(s) - 1)) ELSE s

\* str.strip()
Strip(s) == RStrip(LStrip(s))

\* re.sub(r"\s+", " ", s)
RECURSIVE Collapse(_)
Collapse(s) ==
    IF s = <<>> THEN <<>>
    ELSE IF Len(s) = 1 THEN (IF IsSpace(s[1]) THEN <<" ">> ELSE s)
    ELSE LET half == Len(s) \div 2
             left == Collapse(SubSeq(s, 1, half))
             right == Collapse(SubSeq(s, half + 1, Len(s)))
         IN IF left[Len(left)] = " " /\ right[1] = " "
            THEN left \o Tail(right)
            ELSE left \o right

\* kw in text
Contains(text, kw) == \E k \in 1..Len(text) : text[k] = kw

\* hashlib.sha256(...).hexdigest(): a collision-free digest, written as the
\* text it digests.
sha256(text) == <<"sha256">> \o text

(***************************************************************************)
(* Fetch records the classifiers read                                      *)
(***************************************************************************)
Resolved == [rcode |-> "NOERROR", a |-> <<"192.0.2.1">>, aaaa |-> <<>>,
             cname |-> <<>>, mx |-> <<>>]

Unresolved == [rcode |-> "NOERROR", a |-> <<>>, aaaa |-> <<>>, cname |-> <<>>,
               mx |-> <<>>]

Html(status, title, description, text) ==
    [status |-> status, content_type |-> "text/html", title |-> title,
     body_snippet |-> text, meta_description |-> description, blocked |-> FALSE,
     block_reason |-> None, error |-> None]

ShopText == Rep("x", 30) \o <<" ">> \o Rep("y", 29)

\* The records of a classification run, as the fetcher leaves them.  Records 2
\* and 3 carry the same title, description and snippet.
RecordCatalog ==
    << [fqdn |-> <<"harvard", "edu">>, dns |-> Resolved,
        http |-> Html(200, <<"h">>, <<>>, Rep("h", 60))],
       [fqdn |-> <<"shop1", "com">>, dns |-> Resolved,
        http |-> Html(200, <<"s">>, <<"d">>, ShopText)],
       [fqdn |-> <<"shop2", "com">>, dns |-> Resolved,
        http |-> Html(200, <<"s">>, <<"d">>, ShopText)],
       [fqdn |-> <<"gone", "org">>, dns |-> Unresolved, http |-> HttpResult0],
       [fqdn |-> <<"forsale", "com">>, dns |-> Resolved,
        http |-> Html(200, <<"s">>, <<>>, <<"sedo">>)],
       [fqdn |-> <<"tiny", "com">>, dns |-> Resolved,
        http |-> Html(200, <<"t">>, <<>>, <<"o", "k">>)],
       [fqdn |-> <<"down", "net">>, dns |-> Resolved,
        http |-> [HttpResult0 EXCEPT !.error = "connect_error"]] >>

Records == SubSeq(RecordCatalog, 1, NumRecords)

\* The store after a fetch run over Records: batch_insert_domains of the
\* FetchResults on an empty database.
FetchedDb ==
    batch_insert_domains(EmptyDb,
        [k \in 1..Len(Records) |->
            [fqdn |-> Records[k].fqdn, dns |-> Records[k].dns,
             http |-> Records[k].http,
             fetch_status |-> FetchStatus(Records[k].dns, Records[k].http)]],
        0).conn

(***************************************************************************)
(* Rules and fingerprint of the store-backed classifier                    *)
(* (scripts/wxawebcat_classifier_db.py)                                    *)
(***************************************************************************)
enable_content_hash_dedup == TRUE
enable_tld_rules == TRUE
min_content_length_for_hash == 50

Tld(category, confidence, description) ==
    [category |-> category, confidence |-> confidence, description |-> description]

\* TLD_CATEGORY_MAP, keyed by the labels of the suffix; confidences in percent.
TLD_CATEGORY_MAP_db ==
    ( <<"gov">> :> Tld("Government", 99, "Government TLD")
   @@ <<"gov", "uk">> :> Tld("Government", 99, "UK Government TLD")
   @@ <<"gov", "au">> :> Tld("Government", 99, "Australian Government TLD")
   @@ <<"gov", "ca">> :> Tld("Government", 99, "Canadian Government TLD")
   @@ <<"mil">> :> Tld("Government", 99, "Military TLD")
   @@ <<"edu">> :> Tld("Education", 98, "Educational institution TLD")
   @@ <<"ac", "uk">> :> Tld("Education", 98, "UK Academic TLD")
   @@ <<"edu", "au">> :> Tld("Education", 98, "Australian Education TLD")
   @@ <<"edu", "cn">> :> Tld("Education", 98, "Chinese Education TLD")
   @@ <<"xxx">> :> Tld("Adult", 99, "Adult content TLD")
   @@ <<"adult">> :> Tld("Adult", 99, "Adult content TLD")
   @@ <<"porn">> :> Tld("Adult", 98, "Adult content TLD")
   @@ <<"sex">> :> Tld("Adult", 98, "Adult content TLD")
   @@ <<"bank">> :> Tld("Finance", 90, "Banking TLD")
   @@ <<"insurance">> :> Tld("Finance", 90, "Insurance TLD")
   @@ <<"crypto">> :> Tld("Technology", 85, "Cryptocurrency TLD")
   @@ <<"nft">> :> Tld("Technology", 85, "NFT TLD")
   @@ <<"blockchain">> :> Tld("Technology", 85, "Blockchain TLD")
   @@ <<"museum">> :> Tld("Arts_Entertainment", 90, "Museum TLD")
   @@ <<"church">> :> Tld("Religion", 90, "Religious organization TLD")
   @@ <<"test">> :> Tld("Development", 99, "Testing TLD")
   @@ <<"localhost">> :> Tld("Development", 99, "Localhost TLD")
   @@ <<"local">> :> Tld("Development", 99, "Local network TLD")
   @@ <<"example">> :> Tld("Development", 99, "Example TLD") )

\* fqdn.endswith("." + ".".join(tld)) on the dotted name
EndsWithTld(fqdn, tld) ==
    /\ Len(fqdn) > Len(tld)
    /\ SubSeq(fqdn, Len(fqdn) - Len(tld) + 1, Len(fqdn)) = tld

MultiPartTlds_db ==
    << <<"gov", "uk">>, <<"gov", "au">>, <<"gov", "ca">>, <<"ac", "uk">>,
       <<"edu", "au">>, <<"edu", "cn">> >>

RECURSIVE FirstSuffix(_, _, _)
FirstSuffix(fqdn, tlds, k) ==
    IF k > Len(tlds) THEN <<>>
    ELSE IF EndsWithTld(fqdn, tlds[k]) THEN tlds[k]
    ELSE FirstSuffix(fqdn, tlds, k + 1)

\* An extract_tld that knows no multi-part suffix.
extract_tld_db_last_label(fqdn) ==
    IF Len(fqdn) >= 2 THEN <<fqdn[Len(fqdn)]>> ELSE <<>>

\* extract_tld; <<>> is None
extract_tld_db(fqdn) ==
    IF fqdn = <<>> THEN <<>>
    ELSE IF FirstSuffix(fqdn, MultiPartTlds_db, 1) # <<>>
         THEN FirstSuffix(fqdn, MultiPartTlds_db, 1)
    ELSE IF Len(fqdn) >= 2 THEN <<fqdn[Len(fqdn)]>>
    ELSE <<>>

Rule(category, confidence, reason) ==
    [category |-> category, confidence |-> confidence, reason |-> reason]

classify_by_tld_db(fqdn) ==
    LET tld == extract_tld_db(fqdn) IN
    IF tld # <<>> /\ tld \in DOMAIN TLD_CATEGORY_MAP_db
    THEN Rule(TLD_CATEGORY_MAP_db[tld].category, TLD_CATEGORY_MAP_db[tld].confidence,
              <<"rule: TLD", tld>>)
    ELSE NoResult

UNREACHABLE_STATUS_CODES == {0, 408, 520, 521, 522, 523, 524}
BLOCKED_STATUS_CODES == {403, 429}
NOT_FOUND_STATUS_CODES == {404, 410}

ParkedKeywords_db == {"domain for sale", "sedo", "afternic"}

\* A rule engine that looks at the DNS answer before the TLD table.
rule_preclass_db_dns_first(doc, tld_rules) ==
    IF doc.dns.rcode # "NOERROR"
    THEN Rule("Unreachable", 99, <<"rule: dns_rcode", doc.dns.rcode>>)
    ELSE IF tld_rules /\ classify_by_tld_db(doc.fqdn) # NoResult
    THEN classify_by_tld_db(doc.fqdn)
    ELSE NoResult

rule_preclass_db(doc, tld_rules) ==
    IF tld_rules /\ classify_by_tld_db(doc.fqdn) # NoResult
    THEN classify_by_tld_db(doc.fqdn)
    ELSE IF doc.dns.rcode # "NOERROR"
    THEN Rule("Unreachable", 99, <<"rule: dns_rcode", doc.dns.rcode>>)
    ELSE IF doc.http.status \in UNREACHABLE_STATUS_CODES
    THEN Rule("Unreachable", 98, <<"rule: http_status", doc.http.status>>)
    ELSE IF doc.http.status \in BLOCKED_STATUS_CODES \/ doc.http.blocked
    THEN Rule("Blocked", 98, <<"rule: blocked">>)
    ELSE IF doc.http.status \in NOT_FOUND_STATUS_CODES
    THEN Rule("Unreachable", 95, <<"rule: http_status", doc.http.status>>)
    ELSE IF \E kw \in ParkedKeywords_db :
              \/ Contains(LowerText(doc.http.body_snippet), kw)
              \/ Contains(LowerText(doc.http.title), kw)
    THEN Rule("Parked", 95, <<"rule: parked_domain">>)
    ELSE NoResult

\* A fingerprint that leaves the meta description out.
build_content_fingerprint_db_no_meta(http) ==
    LET title == Strip(http.title)
        snippet == Strip(Take(http.body_snippet, 500))
    IN sha256(Collapse(LowerText(title \o <<"|">> \o snippet)))

build_content_fingerprint_db(http) ==
    LET title == Strip(http.title)
        meta_desc == Strip(http.meta_description)
        snippet == Strip(Take(http.body_snippet, 500))
        combined == LowerText(title \o <<"|">> \o meta_desc \o <<"|">> \o snippet)
    IN sha256(Collapse(combined))

(***************************************************************************)
(* The inference endpoint                                                  *)
(***************************************************************************)
\* JSON values of a reply
Str(v) == [t |-> "str", s |-> v]
Num(v) == [t |-> "num", n |-> v]
Null == [t |-> "null"]
Absent == [t |-> "absent"]
Dict(category, confidence) ==
    [t |-> "dict", category |-> category, confidence |-> confidence]

\* What one request can end in.  "transport_error": client.post or
\* raise_for_status raises (connection error, timeout, non-2xx status).
\* "not_json": the message content is not JSON.  "json": json.loads gives
\* `parsed`; confidences are in percent.
LlmReplies ==
    { [kind |-> "transport_error"], [kind |-> "not_json"] }
    \cup { [kind |-> "json", parsed |-> p] :
            p \in { Dict(Str("Business"), Num(90)),
                    Dict(Null, Num(90)),
                    Dict(Str("Business"), Num(150)),
                    Dict(Str("Business"), Str("high")),
                    Dict(Absent, Absent),
                    [t |-> "list"] } }

NoReply == [kind |-> "none"]

\* parsed.get("category", "Other")
GetCategory(parsed) ==
    IF parsed.category.t = "absent" THEN "Other"
    ELSE IF parsed.category.t = "null" THEN None
    ELSE parsed.category.s

\* parsed.get("confidence", 0.5), before float()
GetConfidence(parsed) ==
    IF parsed.confidence.t = "absent" THEN Num(50) ELSE parsed.confidence

\* float(x) raises for a non-numeric string and for None
FloatRaises(j) == j.t # "num"

(***************************************************************************)
(* The store-backed classifier (scripts/wxawebcat_classifier_db.py)        *)
(***************************************************************************)
Metrics0(total) ==
    [total |-> total, rule |-> 0, tld_classified |-> 0, hash_cache_hits |-> 0,
     llm |-> 0, errors |-> 0]

\* dict[key] = value
Put(dict, key, value) ==
    [h \in (DOMAIN dict) \cup {key} |-> IF h = key THEN value ELSE dict[h]]

\* main_async, lines 459-463: the cache table read into a dict.
RECURSIVE LoadCache(_, _)
LoadCache(rows, k) ==
    IF k = 0 THEN <<>>
    ELSE Put(LoadCache(rows, k - 1), rows[k].content_hash,
             [category |-> rows[k].category, confidence |-> rows[k].confidence,
              example_fqdn |-> rows[k].example_fqdn])

\* A selection without the fetch_status condition.
get_domains_to_classify_any(conn) ==
    LET rows == SelectSeq(conn.domains, LAMBDA r : r.classified = 0)
    IN [k \in 1..Len(rows) |->
            [domain_id |-> rows[k].id, fqdn |-> rows[k].fqdn,
             dns |-> rows[k].dns_data, http |-> rows[k].http_data]]

\* get_domains_to_classify: WHERE classified = 0 AND fetch_status = 'success'
\* ORDER BY id (rows are stored in id order).
get_domains_to_classify(conn) ==
    LET rows == SelectSeq(conn.domains,
                          LAMBDA r : r.classified = 0 /\ r.fetch_status = "success")
    IN [k \in 1..Len(rows) |->
            [domain_id |-> rows[k].id, fqdn |-> rows[k].fqdn,
             dns |-> rows[k].dns_data, http |-> rows[k].http_data]]

\* process_one, lines 277-282 and 314-319: the record gets a content hash
HashOf_db(domain) ==
    IF enable_content_hash_dedup
       /\ Len(domain.http.body_snippet) >= min_content_length_for_hash
    THEN build_content_fingerprint_db(domain.http)
    ELSE <<>>

\* process_one, lines 264-274: the result of a rule match
RuleResult_db(domain, rule) ==
    [domain_id |-> domain.domain_id, fqdn |-> domain.fqdn, method |-> "rules",
     category |-> rule.category, confidence |-> rule.confidence,
     reason |-> rule.reason, content_hash |-> <<>>]

\* A cache hit that reports full confidence instead of the cached one.
HitResult_db_certain(domain, content_hash, cached) ==
    [domain_id |-> domain.domain_id, fqdn |-> domain.fqdn, method |-> "hash_cache",
     category |-> cached.category, confidence |-> 100,
     reason |-> <<"hash_cache: matched", cached.example_fqdn>>,
     content_hash |-> content_hash]

\* process_one, lines 288-298: the result of a cache hit
HitResult_db(domain, content_hash, cached) ==
    [domain_id |-> domain.domain_id, fqdn |-> domain.fqdn, method |-> "hash_cache",
     category |-> cached.category, confidence |-> cached.confidence,
     reason |-> <<"hash_cache: matched", cached.example_fqdn>>,
     content_hash |-> content_hash]

\* llm_classify, lines 223-231: every exception becomes ok = False
LlmOk_db(reply) == reply.kind = "json"

\* process_one, lines 304-308 raise (and line 336 catches): parsed has no
\* .get, or float() refuses the confidence
ParseRaises_db(reply) ==
    \/ reply.parsed.t # "dict"
    \/ FloatRaises(GetConfidence(reply.parsed))

\* process_one, lines 321-331: the result of a usable reply
LlmResult_db(domain, reply) ==
    [domain_id |-> domain.domain_id, fqdn |-> domain.fqdn, method |-> "llm",
     category |-> GetCategory(reply.parsed),
     confidence |-> GetConfidence(reply.parsed).n,
     reason |-> <<"rationale">>, content_hash |-> HashOf_db(domain)]

\* process_one, lines 304-339: what process_one returns for a reply
AfterReply_db(domain, reply) ==
    IF LlmOk_db(reply) /\ ~ParseRaises_db(reply)
    THEN LlmResult_db(domain, reply)
    ELSE NoResult

\* process_one, lines 312-319: the in-memory cache after a reply
CacheAfterReply_db(dict, domain, reply) ==
    IF LlmOk_db(reply) /\ ~ParseRaises_db(reply) /\ HashOf_db(domain) # <<>>
    THEN Put(dict, HashOf_db(domain),
             [category |-> GetCategory(reply.parsed),
              confidence |-> GetConfidence(reply.parsed).n,
              example_fqdn |-> domain.fqdn])
    ELSE dict

\* Per record: the inference requests sent for it in all, those sent in the
\* current pass, and those that ended in an inference failure (llm_classify
\* raised or returned ok = False).
\* A semaphore that never makes a caller wait.
LlmPermitFree_always(sem) == TRUE

\* process_one, "async with llm_sem" (classifier_db line 300, enhanced line
\* 563): the request is sent when a permit is free.
LlmPermitFree(sem) == sem > 0

Calls0 == [k \in 1..NumRecords |-> [total |-> 0, pass |-> 0, failed |-> 0]]

\* The results of an earlier pass over `domains` in which every inference
\* request was answered with a usable reply: process_one, lines 250-331, for
\* the domains from position k on, dict being the in-memory cache.
RECURSIVE EarlierPass(_, _, _)
EarlierPass(domains, k, dict) ==
    IF k > Len(domains) THEN <<>>
    ELSE LET domain == domains[k]
             rule == rule_preclass_db(domain, enable_tld_rules)
             content_hash == HashOf_db(domain)
             reply == [kind |-> "json", parsed |-> Dict(Str("Business"), Num(90))]
         IN IF rule # NoResult
            THEN <<RuleResult_db(domain, rule)>> \o EarlierPass(domains, k + 1, dict)
            ELSE IF content_hash # <<>> /\ content_hash \in DOMAIN dict
            THEN <<HitResult_db(domain, content_hash, dict[content_hash])>>
                 \o EarlierPass(domains, k + 1, dict)
            ELSE <<LlmResult_db(domain, reply)>>
                 \o EarlierPass(domains, k + 1, CacheAfterReply_db(dict, domain, reply))

\* The store an earlier classifier run left: every domain it selected is
\* classified, the domains whose fetch did not succeed are not.
SettledDb ==
    batch_insert(FetchedDb, EarlierPass(get_domains_to_classify(FetchedDb), 1, <<>>), 0).conn

\* The classifier starts on the store a fetch run left, or on the store its
\* own earlier run left.
InitDb ==
    /\ prog = "db"
    /\ db \in {FetchedDb, SettledDb}
    /\ lastTxn = NoTxn
    /\ pc = "load"
    /\ tasks = <<>>
    /\ pos = 0 /\ dns_sem = 0 /\ http_sem = 0 /\ stats = None /\ pool = None
    /\ mode \in {"oneshot", "watch"}
    /\ iteration = 0
    /\ cache = <<>>
    /\ selected = <<>>
    /\ idx = 0
    /\ results = <<>>
    /\ metrics = Metrics0(0)
    /\ llm_sem = llm_concurrency
    /\ llm_calls = Calls0
    /\ last_reply = NoReply
    /\ out_files = <<>> /\ error_log = <<>> /\ cache_file = <<>> /\ file_sem = 0

\* main_async, lines 459-463
DbLoadCache ==
    /\ prog = "db" /\ pc = "load"
    /\ cache' = LoadCache(db.content_hash_cache, Len(db.content_hash_cache))
    /\ pc' = "check"
    /\ UNCHANGED <<fileVars, prog, db, lastTxn, tasks, fetchVars, mode, iteration, selected,
                   idx, results, metrics, llm_sem, llm_calls, last_reply>>

Unclassified(conn) == {k \in 1..Len(conn.domains) : conn.domains[k].classified = 0}

\* main_async, lines 475-486 (watch) and 523-534 (one-shot), with
\* classify_batch, lines 388-398: count the unclassified rows, select the
\* domains to classify.  In one-shot mode classify_batch returning (0, None)
\* makes line 540 read metrics.total of None.
DbCheck ==
    /\ prog = "db" /\ pc = "check"
    /\ iteration' = iteration + 1
    /\ IF Unclassified(db) = {}
       THEN /\ pc' = IF mode = "oneshot" THEN "done" ELSE "sleep"
            /\ UNCHANGED <<selected, idx, results, metrics, llm_sem, llm_calls>>
       ELSE LET domains == get_domains_to_classify(db) IN
            /\ selected' = domains
            /\ IF Len(domains) = 0
               THEN /\ pc' = IF mode = "oneshot" THEN "crashed" ELSE "sleep"
                    /\ UNCHANGED <<idx, results, metrics, llm_sem, llm_calls>>
               ELSE /\ pc' = "classify"
                    /\ idx' = 1
                    /\ results' = <<>>
                    /\ metrics' = Metrics0(Len(domains))
                    /\ llm_sem' = llm_concurrency
                    /\ llm_calls' = [k \in DOMAIN llm_calls |->
                                        [llm_calls[k] EXCEPT !.pass = 0]]
    /\ UNCHANGED <<fileVars, prog, db, lastTxn, tasks, fetchVars, mode, cache, last_reply>>

\* classify_batch, lines 408-418: the result is appended and a full batch is
\* committed; a raise inside the get_connection block leaves classify_batch
\* and main_async.
AppendResult(result) ==
    LET rs == Append(results, result) IN
    /\ idx' = idx + 1
    /\ IF Len(rs) >= batch_size
       THEN \E fault \in 0..Len(Statements(rs)) :
            LET body == batch_insert(db, rs, fault) IN
            /\ db' = get_connection(db, body)
            /\ lastTxn' = [kind |-> "classifications", before |-> db,
                           results |-> rs, fault |-> fault,
                           raised |-> body.raised]
            /\ results' = IF body.raised THEN rs ELSE <<>>
            /\ pc' = IF body.raised THEN "aborted" ELSE "classify"
       ELSE /\ results' = rs
            /\ pc' = "classify"
            /\ UNCHANGED <<db, lastTxn>>

\* A process_one that never asks the rule engine.
Preclass_db_skipped(domain) == NoResult

\* process_one, line 255: rule_preclass under the configured TLD switch
Preclass_db(domain) == rule_preclass_db(domain, enable_tld_rules)

\* process_one up to its await, lines 250-302, then classify_batch, lines
\* 408-418 when process_one returned without a request.
DbProcess ==
    /\ prog = "db" /\ pc = "classify" /\ idx <= Len(selected)
    /\ LET domain == selected[idx]
           rule == Preclass_db(domain)
           content_hash == HashOf_db(domain)
       IN IF rule # NoResult
          THEN /\ metrics' = [metrics EXCEPT
                                !.rule = @ + 1,
                                !.tld_classified =
                                    IF rule.reason[1] = "rule: TLD" THEN @ + 1 ELSE @]
               /\ AppendResult(RuleResult_db(domain, rule))
               /\ UNCHANGED <<llm_sem, llm_calls>>
          ELSE IF content_hash # <<>> /\ content_hash \in DOMAIN cache
          THEN /\ metrics' = [metrics EXCEPT !.hash_cache_hits = @ + 1]
               /\ AppendResult(HitResult_db(domain, content_hash, cache[content_hash]))
               /\ UNCHANGED <<llm_sem, llm_calls>>
          ELSE /\ LlmPermitFree(llm_sem)
               /\ llm_sem' = llm_sem - 1
               /\ llm_calls' = [llm_calls EXCEPT ![domain.domain_id].total = @ + 1,
                                                 ![domain.domain_id].pass = @ + 1]
               /\ pc' = "llm"
               /\ UNCHANGED <<db, lastTxn, idx, results, metrics>>
    /\ UNCHANGED <<fileVars, prog, tasks, fetchVars, mode, iteration, cache, selected, last_reply>>

\* process_one after its await, lines 302-339, then classify_batch, lines
\* 408-418.
DbLlmDone ==
    /\ prog = "db" /\ pc = "llm"
    /\ \E reply \in LlmReplies :
        LET domain == selected[idx]
            result == AfterReply_db(domain, reply)
        IN /\ last_reply' = reply
           /\ llm_sem' = llm_sem + 1
           /\ llm_calls' = IF LlmOk_db(reply) THEN llm_calls
                           ELSE [llm_calls EXCEPT ![domain.domain_id].failed = @ + 1]
           /\ cache' = CacheAfterReply_db(cache, domain, reply)
           /\ metrics' = IF result = NoResult
                         THEN [metrics EXCEPT !.errors = @ + 1]
                         ELSE [metrics EXCEPT !.llm = @ + 1]
           /\ AppendResult(result)
    /\ UNCHANGED <<fileVars, prog, tasks, fetchVars, mode, iteration, selected>>

\* classify_batch, lines 420-427, and the return to main_async.
DbFinalBatch ==
    /\ prog = "db" /\ pc = "classify" /\ idx > Len(selected)
    /\ IF results # <<>>
       THEN \E fault \in 0..Len(Statements(results)) :
            LET body == batch_insert(db, results, fault) IN
            /\ db' = get_connection(db, body)
            /\ lastTxn' = [kind |-> "classifications", before |-> db,
                           results |-> results, fault |-> fault,
                           raised |-> body.raised]
            /\ pc' = IF body.raised THEN "aborted"
                     ELSE IF mode = "oneshot" THEN "done" ELSE "sleep"
       ELSE /\ pc' = IF mode = "oneshot" THEN "done" ELSE "sleep"
            /\ UNCHANGED <<db, lastTxn>>
    /\ UNCHANGED <<fileVars, prog, tasks, fetchVars, mode, iteration, cache, selected, idx,
                   results, metrics, llm_sem, llm_calls, last_reply>>

\* main_async, line 503: the watch loop sleeps and starts over.
DbSleep ==
    /\ prog = "db" /\ pc = "sleep" /\ mode = "watch"
    /\ iteration < MaxIter
    /\ pc' = "check"
    /\ UNCHANGED <<fileVars, prog, db, lastTxn, tasks, fetchVars, mode, iteration, cache,
                   selected, idx, results, metrics, llm_sem, llm_calls, last_reply>>

NextDb ==
    \/ DbLoadCache
    \/ DbCheck
    \/ DbProcess
    \/ DbLlmDone
    \/ DbFinalBatch
    \/ DbSleep

SpecDb == InitDb /\ [][NextDb]_vars

(***************************************************************************)
(* Rules and fingerprint of the file-based classifier                      *)
(* (wxawebcat_fetcher_enhanced.py)                                         *)
(***************************************************************************)
file_min_fingerprint_length == 50

TLD_CATEGORY_MAP_file ==
    ( <<"gov">> :> Tld("Government", 99, "Government TLD")
   @@ <<"gov", "uk">> :> Tld("Government", 99, "Government TLD")
   @@ <<"gov", "au">> :> Tld("Government", 99, "Government TLD")
   @@ <<"gov", "ca">> :> Tld("Government", 99, "Government TLD")
   @@ <<"mil">> :> Tld("Government", 99, "Military TLD")
   @@ <<"edu">> :> Tld("Education", 98, "Educational institution TLD")
   @@ <<"ac", "uk">> :> Tld("Education", 98, "Academic TLD")
   @@ <<"edu", "au">> :> Tld("Education", 98, "Educational TLD")
   @@ <<"edu", "cn">> :> Tld("Education", 98, "Educational TLD")
   @@ <<"xxx">> :> Tld("Adult", 99, "Adult content TLD")
   @@ <<"adult">> :> Tld("Adult", 98, "Adult content TLD")
   @@ <<"porn">> :> Tld("Adult", 99, "Adult content TLD")
   @@ <<"sex">> :> Tld("Adult", 98, "Adult content TLD")
   @@ <<"crypto">> :> Tld("Technology", 85, "Cryptocurrency TLD")
   @@ <<"nft">> :> Tld("Technology", 85, "NFT/Blockchain TLD")
   @@ <<"blockchain">> :> Tld("Technology", 90, "Blockchain TLD")
   @@ <<"museum">> :> Tld("Arts_Entertainment", 85, "Museum TLD")
   @@ <<"church">> :> Tld("Religion", 85, "Religious organization TLD")
   @@ <<"bank">> :> Tld("Finance", 90, "Banking TLD")
   @@ <<"insurance">> :> Tld("Finance", 85, "Insurance TLD")
   @@ <<"localhost">> :> Tld("Development", 99, "Localhost TLD")
   @@ <<"local">> :> Tld("Development", 95, "Local development TLD")
   @@ <<"test">> :> Tld("Development", 99, "Test TLD")
   @@ <<"example">> :> Tld("Development", 99, "Example TLD") )

\* sorted(TLD_CATEGORY_MAP.keys(), key=len, reverse=True): by the length of
\* the dotted key, longest first, keys of one length in the map's order.
SortedTlds_file ==
    << <<"blockchain">>, <<"insurance">>, <<"localhost">>, <<"example">>,
       <<"gov", "uk">>, <<"gov", "au">>, <<"gov", "ca">>, <<"edu", "au">>,
       <<"edu", "cn">>, <<"crypto">>, <<"museum">>, <<"church">>,
       <<"ac", "uk">>, <<"adult">>, <<"local">>,
       <<"porn">>, <<"bank">>, <<"test">>,
       <<"gov">>, <<"mil">>, <<"edu">>, <<"xxx">>, <<"sex">>, <<"nft">> >>

\* str.rstrip("."): a trailing dot shows as an empty last label
RECURSIVE RStripDots(_)
RStripDots(fqdn) ==
    IF Len(fqdn) > 1 /\ fqdn[Len(fqdn)] = ""
    THEN RStripDots(SubSeq(fqdn, 1, Len(fqdn) - 1))
    ELSE fqdn

\* extract_tld; <<>> is None
extract_tld_file(fqdn) ==
    IF fqdn = <<>> THEN <<>>
    ELSE LET name == RStripDots(fqdn) IN
         IF FirstSuffix(name, SortedTlds_file, 1) # <<>>
         THEN FirstSuffix(name, SortedTlds_file, 1)
         ELSE IF Len(name) >= 2 /\ <<name[Len(name)]>> \in DOMAIN TLD_CATEGORY_MAP_file
         THEN <<name[Len(name)]>>
         ELSE <<>>

classify_by_tld_file(fqdn) ==
    LET tld == extract_tld_file(fqdn) IN
    IF tld # <<>> /\ tld \in DOMAIN TLD_CATEGORY_MAP_file
    THEN Rule(TLD_CATEGORY_MAP_file[tld].category,
              TLD_CATEGORY_MAP_file[tld].confidence, <<"rule: TLD", tld>>)
    ELSE NoResult

\* re.sub(r"\s+", " ", s).strip().lower()
norm_text(s) == LowerText(Strip(Collapse(s)))

PARKED_PATTERNS ==
    {"domain for sale", "buy this domain", "this domain is for sale", "sedo",
     "afternic", "dan.com", "bodis", "parkingcrew", "is parked", "domain parked",
     "parked domain"}

BLOCK_PATTERNS ==
    {"access denied", "request blocked", "unusual traffic", "verify you are human",
     "captcha", "challenge", "checking your browser", "ddos protection",
     "attention required", "cloudflare", "akamai", "imperva", "incapsula"}

NOTFOUND_PATTERNS ==
    {"not found", "404", "page not found", "doesn't exist", "does not exist"}

ImageTypes == {"image/png", "image/jpeg", "image/gif"}
BinaryTypes == {"application/zip", "application/octet-stream"}

rule_preclass_file(doc, tld_rules) ==
    LET http == doc.http
        combo == norm_text(http.title) \o <<" ">> \o norm_text(http.body_snippet)
    IN
    IF tld_rules /\ classify_by_tld_file(doc.fqdn) # NoResult
    THEN classify_by_tld_file(doc.fqdn)
    ELSE IF doc.dns.rcode \in {"NXDOMAIN", "SERVFAIL"}
    THEN Rule("Unreachable", 99, <<"rule: dns rcode", doc.dns.rcode>>)
    ELSE IF doc.dns.a = <<>> /\ doc.dns.aaaa = <<>> /\ doc.dns.cname = <<>>
    THEN Rule("Unreachable", 95, <<"rule: no A/AAAA/CNAME">>)
    ELSE IF http.status \in UNREACHABLE_STATUS_CODES
    THEN Rule("Unreachable", 95, <<"rule: http status", http.status>>)
    ELSE IF http.blocked
    THEN Rule("Blocked", 98, <<"rule: fetcher blocked=true">>)
    ELSE IF http.status \in BLOCKED_STATUS_CODES
            /\ \E p \in BLOCK_PATTERNS : Contains(combo, p)
    THEN Rule("Blocked", 95, <<"rule: http + block fingerprint", http.status>>)
    ELSE IF http.status \in NOT_FOUND_STATUS_CODES
            /\ \E p \in NOTFOUND_PATTERNS : Contains(combo, p)
    THEN Rule("Unreachable", 90, <<"rule: http + notfound fingerprint", http.status>>)
    ELSE IF \E p \in PARKED_PATTERNS : Contains(combo, p)
    THEN Rule("Parked", 95, <<"rule: parked/sale fingerprint">>)
    ELSE IF http.content_type \in ImageTypes
    THEN Rule("NonWebContent", 90, <<"rule: content-type", http.content_type>>)
    ELSE IF http.content_type = "application/pdf"
    THEN Rule("NonWebContent", 90, <<"rule: content-type=application/pdf">>)
    ELSE IF http.content_type \in BinaryTypes
    THEN Rule("NonWebContent", 85, <<"rule: content-type", http.content_type>>)
    ELSE NoResult

\* build_content_fingerprint; <<>> is None
build_content_fingerprint_file(doc) ==
    LET title == norm_text(doc.http.title)
        snippet == norm_text(doc.http.body_snippet)
        meta_desc == norm_text(doc.http.meta_description)
        combined == Strip(title \o <<" ">> \o meta_desc \o <<" ">> \o snippet)
    IN IF Len(combined) < file_min_fingerprint_length THEN <<>> ELSE combined

\* process_one, lines 529-533: the content hash of the record, <<>> for None
HashOf_file(doc) ==
    IF enable_content_hash_dedup /\ build_content_fingerprint_file(doc) # <<>>
    THEN sha256(build_content_fingerprint_file(doc))
    ELSE <<>>

(***************************************************************************)
(* The file-based classifier (wxawebcat_fetcher_enhanced.py)               *)
(***************************************************************************)
Metrics0_file(total) ==
    [total |-> total, skipped |-> 0, rule |-> 0, tld_classified |-> 0,
     hash_cache_hits |-> 0, llm |-> 0, errors |-> 0, blocked |-> 0,
     unreachable |-> 0, parked |-> 0]

FTask0(k) ==
    [pc |-> "start", doc |-> Records[k], content_hash |-> <<>>,
     pending |-> NoResult, reply |-> NoReply]

\* process_one, lines 493-504: the counters of a rule match
CountRule_file(m, rule) ==
    [m EXCEPT !.rule = @ + 1,
              !.tld_classified = IF rule.reason[1] = "rule: TLD" THEN @ + 1 ELSE @,
              !.blocked = IF rule.category = "Blocked" THEN @ + 1 ELSE @,
              !.unreachable = IF rule.category = "Unreachable" THEN @ + 1 ELSE @,
              !.parked = IF rule.category = "Parked" THEN @ + 1 ELSE @]

\* process_one, lines 506-524
RuleResult_file(doc, rule) ==
    [fqdn |-> doc.fqdn, method |-> "rules", category |-> rule.category,
     confidence |-> Num(rule.confidence), reason |-> rule.reason,
     content_hash |-> <<>>]

\* process_one, lines 539-558
HitResult_file(doc, content_hash, cached_result) ==
    [fqdn |-> doc.fqdn, method |-> "hash_cache",
     category |-> cached_result.category,
     confidence |-> cached_result.confidence,
     reason |-> <<"content hash match (similar to", cached_result.example_fqdn>>,
     content_hash |-> content_hash]

\* process_one, lines 575-596
ErrorResult_file(doc) ==
    [fqdn |-> doc.fqdn, method |-> "error", category |-> "Other",
     confidence |-> Num(0), reason |-> <<"llm_return_not_json">>,
     content_hash |-> <<>>]

\* process_one, lines 612-634
LlmResult_file(doc, parsed) ==
    [fqdn |-> doc.fqdn, method |-> "llm", category |-> GetCategory(parsed),
     confidence |-> GetConfidence(parsed), reason |-> <<"rationale">>,
     content_hash |-> <<>>]

\* hash_cache.put of lines 604-610: the entry keeps the reply's confidence as
\* it came, before any float()
CacheEntry_file(doc, parsed) ==
    [category |-> GetCategory(parsed), confidence |-> GetConfidence(parsed),
     example_fqdn |-> doc.fqdn]

\* llm_classify, lines 440-442 raise: the request or its status failed
LlmRaises_file(reply) == reply.kind = "transport_error"

\* llm_classify, lines 447-451
LlmOk_file(reply) == reply.kind = "json"

InitFile ==
    /\ prog = "file"
    /\ db = EmptyDb
    /\ lastTxn = NoTxn
    /\ pc = "load"
    /\ tasks = <<>>
    /\ pos = 0 /\ dns_sem = 0 /\ http_sem = 0 /\ stats = None /\ pool = None
    /\ mode = "oneshot"
    /\ iteration = 0
    /\ cache = <<>>
    /\ selected = <<>>
    /\ idx = 0
    /\ results = <<>>
    /\ metrics = Metrics0_file(0)
    /\ llm_sem = llm_concurrency
    /\ llm_calls = Calls0
    /\ last_reply = NoReply
    /\ out_files = [k \in 1..NumRecords |-> NoResult]
    /\ error_log = <<>>
    /\ cache_file = <<>>
    /\ file_sem = file_concurrency

\* main_async, lines 665-693: the cache file is loaded, the fetch files are
\* listed and one worker per file is handed to asyncio.gather.
FileStart ==
    /\ prog = "file" /\ pc = "load"
    /\ iteration' = iteration + 1
    /\ cache' = cache_file
    /\ tasks' = [k \in 1..NumRecords |-> FTask0(k)]
    /\ metrics' = Metrics0_file(NumRecords)
    /\ llm_sem' = llm_concurrency
    /\ file_sem' = file_concurrency
    /\ llm_calls' = [k \in DOMAIN llm_calls |-> [llm_calls[k] EXCEPT !.pass = 0]]
    /\ pc' = "gather"
    /\ UNCHANGED <<prog, db, lastTxn, fetchVars, mode, selected, idx, results,
                   last_reply, out_files, error_log, cache_file>>

\* A resume check that looks for the result under another name than the one
\* it is written to.
out_path_exists_never(files, i) == FALSE

\* process_one, line 478: out_path.exists()
out_path_exists(files, i) == files[i] # NoResult

\* worker, line 690, and process_one, lines 478-486: the worker takes a file
\* permit; a record with a result file is skipped, any other is read.
FAcquire(i) ==
    /\ prog = "file" /\ pc = "gather"
    /\ tasks[i].pc = "start"
    /\ file_sem > 0
    /\ IF out_path_exists(out_files, i)
       THEN /\ metrics' = [metrics EXCEPT !.skipped = @ + 1]
            /\ tasks' = [tasks EXCEPT ![i].pc = "done"]
            /\ file_sem' = file_sem
       ELSE /\ metrics' = metrics
            /\ tasks' = [tasks EXCEPT ![i].pc = "read"]
            /\ file_sem' = file_sem - 1
    /\ UNCHANGED <<prog, db, lastTxn, pc, fetchVars, mode, iteration, cache, selected,
                   idx, results, llm_sem, llm_calls, last_reply, out_files,
                   error_log, cache_file>>

\* process_one, lines 486-564: the record is read; rules, then the cache
\* lookup, then the request under llm_sem.
FRead(i) ==
    /\ prog = "file" /\ pc = "gather"
    /\ tasks[i].pc = "read"
    /\ LET doc == tasks[i].doc
           rule == rule_preclass_file(doc, enable_tld_rules)
           content_hash == HashOf_file(doc)
       IN IF rule # NoResult
          THEN /\ metrics' = CountRule_file(metrics, rule)
               /\ tasks' = [tasks EXCEPT ![i].pc = "write",
                                         ![i].pending = RuleResult_file(doc, rule)]
               /\ UNCHANGED <<llm_sem, llm_calls>>
          ELSE IF content_hash # <<>> /\ content_hash \in DOMAIN cache
          THEN /\ metrics' = [metrics EXCEPT !.hash_cache_hits = @ + 1]
               /\ tasks' = [tasks EXCEPT
                              ![i].pc = "write",
                              ![i].content_hash = content_hash,
                              ![i].pending =
                                  HitResult_file(doc, content_hash, cache[content_hash])]
               /\ UNCHANGED <<llm_sem, llm_calls>>
          ELSE IF LlmPermitFree(llm_sem)
          THEN /\ llm_sem' = llm_sem - 1
               /\ llm_calls' = [llm_calls EXCEPT ![i].total = @ + 1, ![i].pass = @ + 1]
               /\ tasks' = [tasks EXCEPT ![i].pc = "llm",
                                         ![i].content_hash = content_hash]
               /\ metrics' = metrics
          ELSE /\ tasks' = [tasks EXCEPT ![i].pc = "llm_wait",
                                         ![i].content_hash = content_hash]
               /\ UNCHANGED <<llm_sem, llm_calls, metrics>>
    /\ UNCHANGED <<prog, db, lastTxn, pc, fetchVars, mode, iteration, cache, selected,
                   idx, results, last_reply, out_files, error_log, cache_file,
                   file_sem>>

\* process_one, lines 563-564: a waiting worker gets its llm_sem permit and
\* sends the request.
FLlmAcquire(i) ==
    /\ prog = "file" /\ pc = "gather"
    /\ tasks[i].pc = "llm_wait"
    /\ LlmPermitFree(llm_sem)
    /\ llm_sem' = llm_sem - 1
    /\ llm_calls' = [llm_calls EXCEPT ![i].total = @ + 1, ![i].pass = @ + 1]
    /\ tasks' = [tasks EXCEPT ![i].pc = "llm"]
    /\ UNCHANGED <<prog, db, lastTxn, pc, fetchVars, mode, iteration, cache, selected,
                   idx, results, metrics, last_reply, out_files, error_log,
                   cache_file, file_sem>>

\* process_one, lines 637-644: the handler of any exception; the worker ends
\* without a result file.
Failed_file(i, reply, m) ==
    /\ metrics' = [m EXCEPT !.errors = @ + 1]
    /\ error_log' = Append(error_log, [fqdn |-> tasks[i].doc.fqdn, error |-> "exception"])
    /\ tasks' = [tasks EXCEPT ![i].pc = "done", ![i].reply = reply]
    /\ file_sem' = file_sem + 1

\* process_one, lines 564-635: the request ends.
FLlmDone(i) ==
    /\ prog = "file" /\ pc = "gather"
    /\ tasks[i].pc = "llm"
    /\ llm_sem' = llm_sem + 1
    /\ \E reply \in LlmReplies :
        LET doc == tasks[i].doc
            content_hash == tasks[i].content_hash
        IN /\ llm_calls' = IF LlmRaises_file(reply) \/ ~LlmOk_file(reply)
                           THEN [llm_calls EXCEPT ![i].failed = @ + 1]
                           ELSE llm_calls
           /\ IF LlmRaises_file(reply)
              THEN /\ Failed_file(i, reply, metrics)
                   /\ cache' = cache
              ELSE IF ~LlmOk_file(reply)
              THEN /\ metrics' = [metrics EXCEPT !.errors = @ + 1]
                   /\ error_log' = Append(error_log,
                                          [fqdn |-> doc.fqdn, error |-> "llm_return_not_json"])
                   /\ tasks' = [tasks EXCEPT ![i].pc = "write", ![i].reply = reply,
                                             ![i].pending = ErrorResult_file(doc)]
                   /\ UNCHANGED <<cache, file_sem>>
              ELSE IF reply.parsed.t # "dict"
              THEN /\ Failed_file(i, reply, [metrics EXCEPT !.llm = @ + 1])
                   /\ cache' = cache
              ELSE /\ cache' = IF enable_content_hash_dedup /\ content_hash # <<>>
                               THEN Put(cache, content_hash,
                                        CacheEntry_file(doc, reply.parsed))
                               ELSE cache
                   /\ IF FloatRaises(GetConfidence(reply.parsed))
                      THEN Failed_file(i, reply, [metrics EXCEPT !.llm = @ + 1])
                      ELSE /\ metrics' = [metrics EXCEPT !.llm = @ + 1]
                           /\ tasks' = [tasks EXCEPT
                                          ![i].pc = "write", ![i].reply = reply,
                                          ![i].pending = LlmResult_file(doc, reply.parsed)]
                           /\ UNCHANGED <<error_log, file_sem>>
    /\ UNCHANGED <<prog, db, lastTxn, pc, fetchVars, mode, iteration, selected, idx,
                   results, last_reply, out_files, cache_file>>

\* safe_write_json, lines 267-272, and the end of worker: the result file is
\* in place and the file permit is released.
FWrite(i) ==
    /\ prog = "file" /\ pc = "gather"
    /\ tasks[i].pc = "write"
    /\ out_files' = [out_files EXCEPT ![i] = tasks[i].pending]
    /\ tasks' = [tasks EXCEPT ![i].pc = "done"]
    /\ file_sem' = file_sem + 1
    /\ UNCHANGED <<prog, db, lastTxn, pc, fetchVars, mode, iteration, cache, selected,
                   idx, results, metrics, llm_sem, llm_calls, last_reply, error_log,
                   cache_file>>

\* main_async, lines 693-726: gather is over, the cache is saved, the run
\* returns 0.
FileFinish ==
    /\ prog = "file" /\ pc = "gather"
    /\ \A k \in 1..Len(tasks) : tasks[k].pc = "done"
    /\ cache_file' = cache
    /\ pc' = "done"
    /\ UNCHANGED <<prog, db, lastTxn, tasks, fetchVars, mode, iteration, cache,
                   selected, idx, results, metrics, llm_sem, llm_calls, last_reply,
                   out_files, error_log, file_sem>>

\* The script is run again over the same directories.
FileRerun ==
    /\ prog = "file" /\ pc = "done"
    /\ iteration < MaxIter
    /\ pc' = "load"
    /\ UNCHANGED <<prog, db, lastTxn, tasks, fetchVars, mode, iteration, cache,
                   selected, idx, results, metrics, llm_sem, llm_calls, last_reply,
                   out_files, error_log, cache_file, file_sem>>

NextFile ==
    \/ FileStart
    \/ \E i \in 1..Len(tasks) : FAcquire(i)
    \/ \E i \in 1..Len(tasks) : FRead(i)
    \/ \E i \in 1..Len(tasks) : FLlmAcquire(i)
    \/ \E i \in 1..Len(tasks) : FLlmDone(i)
    \/ \E i \in 1..Len(tasks) : FWrite(i)
    \/ FileFinish
    \/ FileRerun

SpecFile == InitFile /\ [][NextFile]_vars

(***************************************************************************)
(* Properties of the fetcher                                               *)
(***************************************************************************)
\* C1: in a fetch run every input domain passes through DNS resolution
\* exactly once and, when the run is over, has exactly one row in the domains
\* table -- a domain whose processing raised an unexpected exception
\* included.
C1_EveryDomainPersisted ==
    /\ \A i \in 1..Len(tasks) :
          tasks[i].pc = "returned" => tasks[i].dns_entries = 1
    /\ pc = "done" =>
          \A k \in 1..Len(InputDomains) :
              Cardinality(DomainRows(db, InputDomains[k])) = 1

\* C8: the domains table holds at most one row per fqdn, the row carries the
\* payload of the latest upsert of that fqdn, and a second run over the same
\* list changes no row count.
C8_UpsertKeepsRowCount ==
    /\ [](\A k \in 1..Len(InputDomains) :
              Cardinality(DomainRows(db, InputDomains[k])) <= 1)
    /\ [](lastTxn.kind = "domains" /\ ~lastTxn.raised =>
              \A r \in Range(lastTxn.results) :
                  \E k \in DomainRows(db, r.fqdn) :
                      /\ db.domains[k].dns_data = r.dns
                      /\ db.domains[k].http_data = r.http
                      /\ db.domains[k].fetch_status = r.fetch_status)
    /\ [][iteration = 2 => Len(db'.domains) = Len(db.domains)]_vars

(***************************************************************************)
(* Properties of the store-backed classifier                               *)
(***************************************************************************)
ClassificationRows(conn, domain_id) ==
    {k \in 1..Len(conn.classifications) :
        conn.classifications[k].domain_id = domain_id}

DomainById(conn, domain_id) ==
    CHOOSE k \in 1..Len(conn.domains) : conn.domains[k].id = domain_id

\* A classification pass of the store-backed classifier is over.
PassOver == pc \in {"sleep", "done"}

\* C2: when a pass is over, every domain that was handed to classification
\* has exactly one persisted result: never none and never two.
C2_ExactlyOneResult ==
    PassOver =>
        \A k \in 1..Len(selected) :
            Cardinality(ClassificationRows(db, selected[k].domain_id)) = 1

\* C3: when a pass is over, every domain whose inference request failed
\* (transport error or unparseable body) has a persisted result with method
\* error, the default category and confidence 0, and is marked classified.
C3_FailurePersistedAsError ==
    PassOver =>
        \A id \in DOMAIN llm_calls :
            llm_calls[id].failed > 0 =>
                /\ \E k \in ClassificationRows(db, id) :
                      /\ db.classifications[k].method = "error"
                      /\ db.classifications[k].category = "Other"
                      /\ db.classifications[k].confidence = 0
                /\ db.domains[DomainById(db, id)].classified = 1

\* C4: a domain whose every inference reply is a failure is sent to
\* inference once and never again: after the first failure it is marked
\* classified and no later pass selects it.
C4_FailedDomainSentOnce ==
    \A id \in DOMAIN llm_calls :
        (llm_calls[id].total > 0 /\ llm_calls[id].failed = llm_calls[id].total) =>
            /\ llm_calls[id].total = 1
            /\ PassOver => db.domains[DomainById(db, id)].classified = 1

\* C7: a failure while one domain is processed never aborts the run and
\* never costs another domain its result: unless the store itself refuses a
\* statement, a batch write does not raise and every other result of the
\* batch is persisted.
C7_FailureIsolated ==
    (lastTxn.kind = "classifications" /\ lastTxn.fault = 0) =>
        /\ pc # "aborted"
        /\ \A k \in 1..Len(lastTxn.results) :
              LET r == lastTxn.results[k] IN
              (r # NoResult /\ r.category # None) =>
                  ClassificationRows(db, r.domain_id) # {}

\* C9: after any number of passes of one classifier no domain has more than
\* one row in classifications.
C9_AtMostOneClassification ==
    \A k \in 1..Len(db.domains) :
        Cardinality(ClassificationRows(db, db.domains[k].id)) <= 1

\* C9 witness: a second pass has written a result for a domain that an
\* earlier pass had sent to inference too, next to results of the first pass.
C9_SecondPassWrote ==
    /\ iteration = 2 /\ pc = "sleep"
    /\ Len(db.classifications) >= 2
    /\ \E id \in DOMAIN llm_calls :
          llm_calls[id].total = 2 /\ ClassificationRows(db, id) # {}

SameFingerprint(i) ==
    {j \in 1..Len(Records) :
        /\ rule_preclass_file(Records[j], enable_tld_rules) = NoResult
        /\ HashOf_file(Records[j]) # <<>>
        /\ HashOf_file(Records[j]) = HashOf_file(Records[i])}

\* An inference reply process_one can use.
UsableReply(reply) ==
    /\ reply.kind = "json"
    /\ reply.parsed.t = "dict"
    /\ ~FloatRaises(GetConfidence(reply.parsed))

\* C6: when N records share one fingerprint that is not cached, none matches
\* a rule and inference succeeds, one pass makes exactly one inference call
\* for them and the other N-1 are cache hits, whatever the interleaving of
\* the workers.
C6_OneCallPerFingerprint ==
    (iteration = 1 /\ pc = "done") =>
        \A i \in 1..Len(Records) :
            LET group == SameFingerprint(i) IN
            (i \in group /\ \A j \in group :
                               tasks[j].reply = NoReply \/ UsableReply(tasks[j].reply))
            => /\ Cardinality({j \in group : llm_calls[j].total = 1}) = 1
               /\ Cardinality({j \in group : out_files[j] # NoResult
                                             /\ out_files[j].method = "hash_cache"})
                    = Cardinality(group) - 1

(***************************************************************************)
(* The fetcher and the store-backed classifier, one after the other on     *)
(* one store                                                               *)
(***************************************************************************)
InitPipeline == InitFetch \/ InitDb

NextPipeline == NextFetch \/ NextDb

SpecPipeline == InitPipeline /\ [][NextPipeline]_vars

\* A task of the fetcher whose DNS lookup has returned.
DnsCompleted(t) == t.pc \in {"http_wait", "https", "http", "returned"}

\* C11: the steps of one domain happen in a fixed order whatever the other
\* domains do: a request is sent for it only after its DNS lookup has
\* returned, its row is written only after its fetch has returned, it is
\* classified only from a row of the store, and the classification is written
\* last, leaving the fetched payload as it was.
C11_StepsInOrder ==
    /\ [](prog = "fetch" =>
            \A i \in 1..Len(tasks) :
                (tasks[i].requests # <<>> \/ tasks[i].pc \in {"https", "http"})
                    => (DnsCompleted(tasks[i]) /\ tasks[i].dns_entries = 1))
    /\ [][(prog = "fetch" /\ db' # db) =>
            /\ \A i \in 1..Len(tasks) : tasks[i].pc = "returned"
            /\ \A r \in Range(lastTxn'.results) :
                  \E i \in 1..Len(tasks) : tasks[i].ret = r]_vars
    /\ [](prog = "db" =>
            /\ \A k \in 1..Len(selected) :
                  \E j \in 1..Len(db.domains) :
                      /\ db.domains[j].id = selected[k].domain_id
                      /\ db.domains[j].dns_data = selected[k].dns
                      /\ db.domains[j].http_data = selected[k].http
            /\ \A c \in 1..Len(db.classifications) :
                  \E j \in 1..Len(db.domains) :
                      /\ db.domains[j].id = db.classifications[c].domain_id
                      /\ db.domains[j].classified = 1)
    /\ [][prog = "db" =>
            /\ Len(db'.domains) = Len(db.domains)
            /\ \A j \in 1..Len(db.domains) :
                  /\ db'.domains[j].dns_data = db.domains[j].dns_data
                  /\ db'.domains[j].http_data = db.domains[j].http_data
                  /\ db'.domains[j].fetch_status = db.domains[j].fetch_status]_vars

\* C11 witness: two domains of one batch were fetched in an order other than
\* that of the list (the second had its response while the first was still
\* in its DNS lookup), and the batch is written with both.
C11_OvertakenAndWritten ==
    /\ prog = "fetch" /\ lastTxn.kind = "domains" /\ ~lastTxn.raised
    /\ Len(lastTxn.results) >= 2
    /\ Len(tasks) >= 2
    /\ tasks[1].requests = <<"https", "http">>
    /\ tasks[2].requests = <<"https">>
    /\ \A r \in Range(lastTxn.results) : DomainRows(db, r.fqdn) # {}

(***************************************************************************)
(* Runs of the three programs under a scheduler that runs whatever is      *)
(* ready; every network call returns                                       *)
(***************************************************************************)
InitRuns == InitFetch \/ InitDb \/ InitFile

NextRuns == NextFetch \/ NextDb \/ NextFile

\* The asyncio event loop resumes a task that is ready, and every awaited
\* network call (DNS query, HTTP request, inference request) returns: a step
\* that can be taken is taken in the end.
SpecRuns == InitRuns /\ [][NextRuns]_vars /\ WF_vars(NextRuns)

\* main_async has returned or was left by an exception.
RunEnded == pc \in {"done", "aborted", "crashed"}

\* No worker is running and every semaphore of the program has all its permits.
AllQuiet ==
    /\ prog = "fetch" =>
          /\ \A i \in 1..Len(tasks) : tasks[i].pc = "returned"
          /\ dns_sem = dns_concurrency
          /\ http_sem = fetch_concurrency
    /\ prog = "db" => llm_sem = llm_concurrency
    /\ prog = "file" =>
          /\ \A i \in 1..Len(tasks) : tasks[i].pc = "done"
          /\ llm_sem = llm_concurrency
          /\ file_sem = file_concurrency

\* How far a task of the fetcher, and a worker of the file-based classifier,
\* is from its return.
TaskRank(t) ==
    CASE t.pc = "start" -> 5
      [] t.pc \in {"dns", "read"} -> 4
      [] t.pc \in {"http_wait", "llm_wait"} -> 3
      [] t.pc \in {"https", "llm"} -> 2
      [] t.pc \in {"http", "write"} -> 1
      [] OTHER -> 0

RECURSIVE SumRank(_, _)
SumRank(ts, k) == IF k = 0 THEN 0 ELSE TaskRank(ts[k]) + SumRank(ts, k - 1)

\* A number that every step of a run makes smaller: the work that is left.
WorkLeft ==
    CASE prog = "fetch" ->
            7 * (Len(InputDomains) - pos)
              - (IF pc = "gather"
                 THEN 1 + 5 * Len(tasks) - SumRank(tasks, Len(tasks)) ELSE 0)
      [] prog = "db" ->
            (2 * NumRecords + 10) * (MaxIter - iteration)
              + (CASE pc = "load" -> 2 * NumRecords + 9
                   [] pc = "check" -> 1
                   [] pc = "sleep" -> 2
                   [] pc = "classify" -> 3 + 2 * (Len(selected) + 1 - idx)
                   [] pc = "llm" -> 2 + 2 * (Len(selected) + 1 - idx)
                   [] OTHER -> 0)
      [] prog = "file" ->
            (5 * NumRecords + 10) * (MaxIter - iteration)
              + (CASE pc = "load" -> 1
                   [] pc = "gather" -> 3 + SumRank(tasks, Len(tasks))
                   [] OTHER -> 2)

\* Something of the run is ready to go on: a batch to start, a task that
\* waits for nothing or for a semaphore that has a permit, a gather that has
\* every result, the next domain of the sequential classifier.
CanStep ==
    \/ /\ prog = "fetch"
       /\ \/ pc = "stream" /\ pos < Len(InputDomains)
          \/ /\ pc = "gather"
             /\ \/ GatherDone
                \/ \E i \in 1..Len(tasks) :
                      \/ tasks[i].pc = "start" /\ dns_sem > 0
                      \/ tasks[i].pc = "http_wait" /\ http_sem > 0
                      \/ tasks[i].pc \in {"dns", "https", "http"}
    \/ /\ prog = "db"
       /\ \/ pc \in {"load", "check", "llm"}
          \/ pc = "classify" /\ (idx > Len(selected) \/ llm_sem > 0)
    \/ /\ prog = "file"
       /\ \/ pc = "load"
          \/ /\ pc = "gather"
             /\ \/ \A k \in 1..Len(tasks) : tasks[k].pc = "done"
                \/ \E i \in 1..Len(tasks) :
                      \/ tasks[i].pc = "start" /\ file_sem > 0
                      \/ tasks[i].pc = "llm_wait" /\ llm_sem > 0
                      \/ tasks[i].pc \in {"read", "llm", "write"}

\* C12: every fetch run and every one-shot classification run ends, given
\* that the network calls return: until it has ended something is ready to go
\* on, and every step leaves less work, of which there is never less than
\* none.  When the run has ended no worker task is running and the DNS, HTTP,
\* inference and file semaphores have all their permits free.
C12_RunsEndQuiet ==
    /\ []((mode # "watch") => (RunEnded \/ CanStep))
    /\ [](WorkLeft >= 0)
    /\ [][WorkLeft' < WorkLeft]_vars
    /\ [](RunEnded => AllQuiet)

\* C12 witness: a fetch run over more than one batch has ended after tasks
\* held both semaphores and sent both requests, or a file-based run has ended
\* after an inference call failed.
C12_EndedAfterWork ==
    /\ RunEnded
    /\ \/ /\ prog = "fetch" /\ pc = "done" /\ pos = Len(InputDomains)
          /\ pos > batch_size
          /\ \E i \in 1..Len(tasks) : Len(tasks[i].requests) = 2
       \/ /\ prog = "file" /\ metrics.errors > 0

\* The tasks of the batch whose DNS lookup has returned and that wait for a
\* permit of the HTTP stage.
WaitingForHttp == {i \in 1..Len(tasks) : tasks[i].pc = "http_wait"}

\* C13: with the HTTP stage paused (no HTTP permit free) the DNS stage is held
\* back: the number of domains that have finished DNS and wait for HTTP never
\* exceeds the capacity C of the hand-off.  The fetcher configures no hand-off
\* of its own; C is taken as the number of results the DNS stage can have in
\* hand at a time, dns_concurrency.
C13_Backpressure ==
    (prog = "fetch" /\ pc = "gather" /\ http_sem = 0)
        => Cardinality(WaitingForHttp) <= dns_concurrency

(***************************************************************************)
(* Properties of the resolver pool                                         *)
(***************************************************************************)
\* The callers inside the block that the lock guards.
InsidePool == {c \in 1..NumCallers : pool.callers[c].pc = "sleep"}

\* C14: whatever the interleaving of the callers, two successive grants of
\* get_resolver are at least the configured delay apart, and at most one
\* caller at a time is inside the block the lock guards, the one that holds
\* the lock.
C14_GrantsApart ==
    prog = "pool" =>
        /\ \A k \in 1..(Len(pool.grants) - 1) :
              pool.grants[k + 1].time - pool.grants[k].time >= pool.delay_seconds
        /\ Cardinality(InsidePool) <= 1
        /\ \A c \in InsidePool : pool.lock = c

\* C14 witness: with a delay configured, a second caller found the lock held
\* by a sleeping one, and three grants were made, the later ones after a wait.
C14_ThreeGrantsWithDelay ==
    /\ prog = "pool" /\ pool.delay_seconds > 0
    /\ Len(pool.grants) = 3
    /\ pool.grants[1].caller # pool.grants[2].caller
    /\ pool.grants[3].time - pool.grants[1].time >= 2 * pool.delay_seconds
    /\ pool.grants[3].resolver = 2 % NumResolvers

(***************************************************************************)
(* Properties of both classifiers                                          *)
(***************************************************************************)
InitClassify == InitDb \/ InitFile

NextClassify == NextDb \/ NextFile

SpecClassify == InitClassify /\ [][NextClassify]_vars

\* The inference requests that were sent and have not returned.
InFlight ==
    IF prog = "db" THEN (IF pc = "llm" THEN 1 ELSE 0)
    ELSE Cardinality({i \in 1..Len(tasks) : tasks[i].pc = "llm"})

\* C15: in every state of a classification pass at most llm_concurrency
\* inference requests are in flight, however many records are worked on at
\* the same time; each request in flight holds one permit of llm_sem.
C15_InFlightBounded ==
    prog \in {"db", "file"} =>
        /\ InFlight <= llm_concurrency
        /\ llm_sem + InFlight = llm_concurrency

\* C15 witness: every permit is taken by a request in flight while another
\* worker, with its record read, waits for one.
C15_AllPermitsTaken ==
    /\ prog = "file" /\ pc = "gather"
    /\ InFlight = llm_concurrency
    /\ \E i \in 1..Len(tasks) : tasks[i].pc = "llm_wait"

(***************************************************************************)
(* Properties of one domain's fetch                                        *)
(***************************************************************************)
\* The tasks of the batch that returned a FetchResult.
WithResult == {i \in 1..Len(tasks) : tasks[i].pc = "returned" /\ tasks[i].ret # NoResult}

\* Both requests of the task were sent and none got a response: line 224 sets
\* content_type, to a string, only on a response.
BothAttemptsFailed(t) == Len(t.requests) = 2 /\ t.http.content_type = None

\* C16: when the HTTPS and the HTTP attempt both end in a transport failure
\* (connect error, timeout, too many redirects, any other, in any
\* combination) the domain's fetch_status is http_failed.
C16_BothFailedIsHttpFailed ==
    prog = "fetch" =>
        \A i \in WithResult :
            BothAttemptsFailed(tasks[i]) => tasks[i].ret.fetch_status = "http_failed"

\* C17: every failed DNS lookup (NXDOMAIN, SERVFAIL, TIMEOUT, ERROR, or an
\* answer without an address) gives fetch_status dns_failed.
C17_DnsFailureIsDnsFailed ==
    prog = "fetch" =>
        \A i \in WithResult :
            tasks[i].env \in DNSErrors => tasks[i].ret.fetch_status = "dns_failed"

\* The task's DNS lookup returned a result, and it is a failure: an rcode
\* other than NOERROR, or no address.
DnsFailed(t) ==
    /\ DnsCompleted(t) /\ t.env # "raise"
    /\ (t.dns.rcode # "NOERROR" \/ (t.dns.a = <<>> /\ t.dns.aaaa = <<>>))

\* The tasks that hold a permit of http_sem over an await.
HoldingHttp == {i \in 1..Len(tasks) : tasks[i].pc \in {"https", "http"}}

C19_AtMostTwoRequests ==
    /\ [](prog = "fetch" =>
            \A i \in 1..Len(tasks) :
                /\ tasks[i].requests \in {<<>>, <<"https">>, <<"https", "http">>}
                /\ tasks[i].pc = "https" => tasks[i].requests = <<"https">>
                /\ tasks[i].pc = "http" => tasks[i].requests = <<"https", "http">>)
    /\ [][(prog = "fetch" /\ pc = "gather" /\ pc' = "gather") =>
            \A i \in 1..Len(tasks) :
                /\ Len(tasks'[i].requests) >= Len(tasks[i].requests)
                /\ Len(tasks'[i].requests) > Len(tasks[i].requests) =>
                      /\ tasks[i].pc \in {"http_wait", "https"}
                      /\ tasks[i].pc = "https" =>
                            /\ tasks'[i].http.content_type = None
                            /\ tasks'[i].http.error # None
                /\ tasks[i].pc = "returned" => tasks'[i] = tasks[i]]_vars

\* C19 witness: in one batch a domain stopped after the response to its HTTPS
\* request and another one sent both requests and got a response to the
\* second.
C19_OneAndTwoRequests ==
    /\ prog = "fetch"
    /\ \E i \in WithResult :
          tasks[i].requests = <<"https">> /\ tasks[i].http.content_type # None
    /\ \E i \in WithResult :
          tasks[i].requests = <<"https", "http">> /\ tasks[i].http.content_type # None

\* What fetch_status is said to depend on.
StatusInputs(dns_result, http_result) ==
    <<dns_result.rcode, dns_result.a, dns_result.aaaa, http_result.status,
      http_result.blocked>>

\* C20: fetch_status is a function of the DNS and the HTTP outcome alone: two
\* results, of one batch or among the stored rows, with the same rcode,
\* addresses, status code and blocked flag have the same fetch_status, and it
\* is one of success, dns_failed, http_failed, blocked.
C20_StatusIsFunction ==
    prog = "fetch" =>
        /\ \A i \in WithResult :
              /\ tasks[i].ret.fetch_status
                    \in {"success", "dns_failed", "http_failed", "blocked"}
              /\ \A j \in WithResult :
                    StatusInputs(tasks[i].ret.dns, tasks[i].ret.http)
                        = StatusInputs(tasks[j].ret.dns, tasks[j].ret.http)
                    => tasks[i].ret.fetch_status = tasks[j].ret.fetch_status
        /\ \A k \in 1..Len(db.domains) :
              /\ db.domains[k].fetch_status
                    \in {"success", "dns_failed", "http_failed", "blocked"}
              /\ \A l \in 1..Len(db.domains) :
                    StatusInputs(db.domains[k].dns_data, db.domains[k].http_data)
                        = StatusInputs(db.domains[l].dns_data, db.domains[l].http_data)
                    => db.domains[k].fetch_status = db.domains[l].fetch_status

\* C20 witness: two stored rows have the same status code, one fetched at the
\* first request and one after a failed HTTPS attempt, and a third row has
\* another fetch_status.
C20_SameInputsDifferentPaths ==
    /\ prog = "fetch"
    /\ \E k, l \in 1..Len(db.domains) :
          /\ db.domains[k].http_data.error = None
          /\ db.domains[l].http_data.error # None
          /\ db.domains[k].http_data.status = db.domains[l].http_data.status
          /\ db.domains[k].http_data.status # 0
    /\ \E k, l \in 1..Len(db.domains) :
          db.domains[k].fetch_status # db.domains[l].fetch_status

\* The record's DNS resolution failed: an rcode other than NOERROR, or no
\* address.
DnsFailedRecord(doc) ==
    doc.dns.rcode # "NOERROR" \/ (doc.dns.a = <<>> /\ doc.dns.aaaa = <<>>)

\* C21: no inference request is ever sent for a record whose DNS resolution
\* failed, and a list selected from the store holds only rows that have
\* fetch_status success and are not classified when they are selected.
C21_OnlyFetchedSelected ==
    /\ [](prog \in {"db", "file"} =>
            \A k \in DOMAIN llm_calls :
                DnsFailedRecord(Records[k]) => llm_calls[k].total = 0)
    /\ [][(prog = "db" /\ selected' # selected) =>
            \A k \in 1..Len(selected') :
                \E j \in 1..Len(db.domains) :
                    /\ db.domains[j].id = selected'[k].domain_id
                    /\ db.domains[j].fetch_status = "success"
                    /\ db.domains[j].classified = 0]_vars

\* C21 witness: a pass of the store-backed classifier selected its list and
\* sent a request while the store holds an unclassified row of a domain that
\* did not resolve.
C21_UnresolvedLeftOut ==
    /\ prog = "db" /\ selected # <<>>
    /\ \E k \in DOMAIN llm_calls : llm_calls[k].total > 0
    /\ \E j \in 1..Len(db.domains) :
          /\ DnsFailedRecord([dns |-> db.domains[j].dns_data])
          /\ db.domains[j].classified = 0
          /\ \A k \in 1..Len(selected) : selected[k].domain_id # db.domains[j].id

(***************************************************************************)
(* The rule engines on their own: rule_preclass, classify_by_tld and the   *)
(* content hash of both classifiers applied to one record                  *)
(***************************************************************************)
RuleNames ==
    { <<"harvard", "edu">>, <<"agency", "gov", "uk">>, <<"shop", "com">>,
      <<"example", "co", "uk">> }

RuleDns ==
    { Resolved, Unresolved,
      [Unresolved EXCEPT !.rcode = "NXDOMAIN"],
      [Unresolved EXCEPT !.rcode = "TIMEOUT"] }

RuleStatuses == {0, 200, 403, 404, 429}

\* Snippets: four short ones, one of exactly the minimum length, one that is
\* as long but mostly white space.
RuleTexts ==
    { <<"welcome">>, <<"captcha">>, <<"not found">>, <<"sedo">>,
      Rep("x", min_content_length_for_hash),
      <<"a">> \o Rep(" ", min_content_length_for_hash - 2) \o <<"b">> }

\* Titles: two short ones and one just short of the minimum length.
RuleTitles == { <<"t">>, <<"captcha">>, Rep("t", min_content_length_for_hash - 2) }

RuleContentTypes == {"text/html", "image/png", "application/pdf"}

RuleHttp ==
    { [Html(status, title, <<>>, text) EXCEPT !.blocked = blocked,
                                              !.content_type = content_type] :
        status \in RuleStatuses, title \in RuleTitles, text \in RuleTexts,
        blocked \in BOOLEAN, content_type \in RuleContentTypes }

\* The records rule_preclass is applied to.
RuleDocs ==
    { [fqdn |-> fqdn, dns |-> dns, http |-> http] :
        fqdn \in RuleNames, dns \in RuleDns, http \in RuleHttp }

InitRules ==
    /\ prog = "rules"
    /\ tasks \in { [doc |-> doc, enable_tld_rules |-> flag] :
                     doc \in RuleDocs, flag \in BOOLEAN }
    /\ results = <<>>
    /\ db = EmptyDb /\ lastTxn = NoTxn /\ pc = None
    /\ pos = 0 /\ dns_sem = 0 /\ http_sem = 0 /\ stats = None /\ pool = None
    /\ mode = None /\ iteration = 0 /\ cache = <<>> /\ selected = <<>> /\ idx = 0
    /\ metrics = None /\ llm_sem = 0 /\ llm_calls = <<>>
    /\ last_reply = None
    /\ out_files = <<>> /\ error_log = <<>> /\ cache_file = <<>> /\ file_sem = 0

notRules ==
    <<prog, db, lastTxn, pc, tasks, fetchVars, mode, iteration, cache, selected,
      idx, metrics, llm_sem, llm_calls, last_reply, out_files, error_log,
      cache_file, file_sem>>

Applied(classifier) == \E k \in 1..Len(results) : results[k].classifier = classifier

\* scripts/wxawebcat_classifier_db.py applied to the record
RulesDb ==
    /\ prog = "rules" /\ ~Applied("db")
    /\ results' = Append(results,
           [classifier |-> "db",
            rule |-> rule_preclass_db(tasks.doc, tasks.enable_tld_rules),
            tld |-> classify_by_tld_db(tasks.doc.fqdn),
            content_hash |-> HashOf_db(tasks.doc)])
    /\ UNCHANGED notRules

\* wxawebcat_fetcher_enhanced.py applied to the record
RulesFile ==
    /\ prog = "rules" /\ ~Applied("file")
    /\ results' = Append(results,
           [classifier |-> "file",
            rule |-> rule_preclass_file(tasks.doc, tasks.enable_tld_rules),
            tld |-> classify_by_tld_file(tasks.doc.fqdn),
            content_hash |-> HashOf_file(tasks.doc)])
    /\ UNCHANGED notRules

NextRules == RulesDb \/ RulesFile

SpecRules == InitRules /\ [][NextRules]_vars

TldMapOf(classifier) ==
    IF classifier = "db" THEN TLD_CATEGORY_MAP_db ELSE TLD_CATEGORY_MAP_file

\* C22: with TLD rules enabled, a record whose domain ends in a suffix of the
\* TLD table gets that suffix's category and confidence from rule_preclass,
\* whatever its DNS rcode, HTTP status, blocked flag and page text are.
C22_TldBeforeAll ==
    prog = "rules" /\ tasks.enable_tld_rules =>
        \A k \in 1..Len(results) :
            \A tld \in DOMAIN TldMapOf(results[k].classifier) :
                EndsWithTld(tasks.doc.fqdn, tld) =>
                    /\ results[k].rule # NoResult
                    /\ results[k].rule.category =
                           TldMapOf(results[k].classifier)[tld].category
                    /\ results[k].rule.confidence =
                           TldMapOf(results[k].classifier)[tld].confidence

\* An NXDOMAIN record of a .edu domain, blocked flag set, classified Education
\* by both rule engines.
C22_NxdomainEduIsEducation ==
    /\ prog = "rules" /\ tasks.enable_tld_rules
    /\ tasks.doc.fqdn = <<"harvard", "edu">>
    /\ tasks.doc.dns.rcode = "NXDOMAIN"
    /\ tasks.doc.http.blocked /\ tasks.doc.http.status = 0
    /\ Len(results) = 2
    /\ \A k \in 1..2 : results[k].rule.category = "Education"

PageText(doc) == LowerText(doc.http.title) \o <<" ">> \o LowerText(doc.http.body_snippet)

\* The steps of the rule engine: 1 TLD, 2 DNS-unreachable, 3 HTTP-unreachable,
\* 4 Blocked, 5 Not-found, 6 Parked, 7 Non-HTML content type.
StepMatches(step, classifier, doc, tld_rules) ==
    CASE step = 1 -> /\ tld_rules
                     /\ \E tld \in DOMAIN TldMapOf(classifier) :
                            EndsWithTld(doc.fqdn, tld)
      [] step = 2 -> \/ doc.dns.rcode \in {"NXDOMAIN", "SERVFAIL"}
                     \/ (doc.dns.a = <<>> /\ doc.dns.aaaa = <<>> /\ doc.dns.cname = <<>>)
      [] step = 3 -> doc.http.status \in {0, 408, 520, 521, 522, 523, 524}
      [] step = 4 -> \/ doc.http.blocked
                     \/ /\ doc.http.status \in {403, 429}
                        /\ \E p \in BLOCK_PATTERNS : Contains(PageText(doc), p)
      [] step = 5 -> /\ doc.http.status \in {404, 410}
                     /\ \E p \in NOTFOUND_PATTERNS : Contains(PageText(doc), p)
      [] step = 6 -> \E p \in PARKED_PATTERNS : Contains(PageText(doc), p)
      [] step = 7 -> doc.http.content_type \in
                         ImageTypes \cup BinaryTypes \cup {"application/pdf"}

StepCategories(classifier, doc) ==
    CASE classifier = "db" ->
            {TLD_CATEGORY_MAP_db[tld].category :
                tld \in {t \in DOMAIN TLD_CATEGORY_MAP_db : EndsWithTld(doc.fqdn, t)}}
      [] OTHER ->
            {TLD_CATEGORY_MAP_file[tld].category :
                tld \in {t \in DOMAIN TLD_CATEGORY_MAP_file : EndsWithTld(doc.fqdn, t)}}

StepCategory(step, classifier, doc) ==
    CASE step = 1 -> StepCategories(classifier, doc)
      [] step \in {2, 3, 5} -> {"Unreachable"}
      [] step = 4 -> {"Blocked"}
      [] step = 6 -> {"Parked"}
      [] step = 7 -> {"NonWebContent"}

FirstStep(classifier, doc, tld_rules) ==
    LET matching == {step \in 1..7 : StepMatches(step, classifier, doc, tld_rules)}
    IN IF matching = {} THEN 0
       ELSE CHOOSE step \in matching : \A other \in matching : step <= other

FirstMatchWins(result) ==
    LET step == FirstStep(result.classifier, tasks.doc, tasks.enable_tld_rules) IN
    IF step = 0 THEN result.rule = NoResult
    ELSE /\ result.rule # NoResult
         /\ result.rule.category \in StepCategory(step, result.classifier, tasks.doc)

\* C23: rule_preclass returns the outcome of the first step that matches in
\* the order TLD, DNS-unreachable, HTTP-unreachable, Blocked, Not-found,
\* Parked, Non-HTML content type, and no result only when no step matches.
C23_FirstMatchingStep ==
    prog = "rules" => \A k \in 1..Len(results) : FirstMatchWins(results[k])

TableSuffixes(classifier, fqdn) ==
    {tld \in DOMAIN TldMapOf(classifier) : EndsWithTld(fqdn, tld)}

LongestSuffix(classifier, fqdn) ==
    CHOOSE tld \in TableSuffixes(classifier, fqdn) :
        \A other \in TableSuffixes(classifier, fqdn) : Len(other) <= Len(tld)

ReachesBlockedStep(result) ==
    \A step \in 1..3 :
        ~StepMatches(step, result.classifier, tasks.doc, tasks.enable_tld_rules)

\* C25: a record that reaches the Blocked step is classified Blocked exactly
\* when its blocked flag is set, or its status is 403 or 429 and its title or
\* snippet contains a block-signature keyword; a 403/429 record with neither
\* is not classified Blocked.
C25_BlockedNeedsFlagOrSignature ==
    prog = "rules" =>
        \A k \in 1..Len(results) :
            ReachesBlockedStep(results[k]) =>
                ( (results[k].rule # NoResult /\ results[k].rule.category = "Blocked")
                  <=> StepMatches(4, results[k].classifier, tasks.doc,
                                  tasks.enable_tld_rules) )

(***************************************************************************)
(* Rules, cache and inference in process_one                               *)
(***************************************************************************)
\* The records of the run each rule engine matches
RuleMatched_db ==
    {k \in 1..NumRecords : rule_preclass_db(Records[k], enable_tld_rules) # NoResult}

RuleMatched_file ==
    {k \in 1..NumRecords : rule_preclass_file(Records[k], enable_tld_rules) # NoResult}

RuleMatchesRecord(k) ==
    IF prog = "db" THEN k \in RuleMatched_db ELSE k \in RuleMatched_file

CachedFrom(k) == \E h \in DOMAIN cache : cache[h].example_fqdn = Records[k].fqdn

\* C26: when the rule engine matches a record, process_one looks nothing up
\* in the fingerprint cache, inserts nothing into it, sends no inference
\* request for the record and leaves the cache as it was.
C26_RuleMatchLeavesCacheAndLlm ==
    /\ [](prog \in {"db", "file"} =>
            \A k \in DOMAIN llm_calls :
                (llm_calls[k].total > 0 \/ CachedFrom(k)) => ~RuleMatchesRecord(k))
    /\ [][(prog = "db" /\ pc = "classify" /\ idx <= Len(selected)
             /\ rule_preclass_db(selected[idx], enable_tld_rules) # NoResult) =>
                /\ cache' = cache
                /\ llm_calls' = llm_calls /\ llm_sem' = llm_sem
                /\ metrics'.hash_cache_hits = metrics.hash_cache_hits
                /\ metrics'.rule = metrics.rule + 1]_vars
    /\ [][prog = "file" /\ pc = "gather" =>
            \A i \in 1..Len(tasks) :
                (/\ tasks[i].pc = "read" /\ tasks'[i].pc # "read"
                 /\ rule_preclass_file(tasks[i].doc, enable_tld_rules) # NoResult) =>
                    /\ cache' = cache
                    /\ llm_calls' = llm_calls /\ llm_sem' = llm_sem
                    /\ metrics'.hash_cache_hits = metrics.hash_cache_hits
                    /\ tasks'[i].content_hash = <<>>
                    /\ tasks'[i].pending.method = "rules"]_vars

\* A rule result is ready for one record while the cache holds an entry made
\* for another.
C26_RuleMatchBesideFilledCache ==
    /\ prog = "file" /\ pc = "gather"
    /\ cache # <<>>
    /\ \E i \in 1..Len(tasks) :
          /\ tasks[i].pc = "write"
          /\ tasks[i].pending.method = "rules"
          /\ llm_calls[i].total = 0

\* The result process_one returned in a step of the store-backed classifier:
\* the last one of the batch, committed or not.
ReturnedResult ==
    IF Len(results) + 1 >= batch_size
    THEN lastTxn'.results[Len(lastTxn'.results)]
    ELSE results'[Len(results')]

HitOf(result, entry) ==
    /\ result.method = "hash_cache"
    /\ result.category = entry.category
    /\ result.confidence = entry.confidence
    /\ result.reason[Len(result.reason)] = entry.example_fqdn

\* C27: on a fingerprint-cache hit the result has method hash_cache, the
\* category and confidence of the cached entry at lookup time and a reason
\* naming the entry's example domain; no inference request is made and the
\* cached entry stays as it was.
C27_HitReusesEntry ==
    /\ [][(/\ prog = "db" /\ pc = "classify" /\ idx <= Len(selected)
           /\ rule_preclass_db(selected[idx], enable_tld_rules) = NoResult
           /\ HashOf_db(selected[idx]) # <<>>
           /\ HashOf_db(selected[idx]) \in DOMAIN cache) =>
              /\ HitOf(ReturnedResult, cache[HashOf_db(selected[idx])])
              /\ ReturnedResult.content_hash = HashOf_db(selected[idx])
              /\ llm_calls' = llm_calls /\ llm_sem' = llm_sem
              /\ cache' = cache]_vars
    /\ [][prog = "file" /\ pc = "gather" =>
            \A i \in 1..Len(tasks) :
                (/\ tasks[i].pc = "read" /\ tasks'[i].pc # "read"
                 /\ rule_preclass_file(tasks[i].doc, enable_tld_rules) = NoResult
                 /\ HashOf_file(tasks[i].doc) # <<>>
                 /\ HashOf_file(tasks[i].doc) \in DOMAIN cache) =>
                    /\ tasks'[i].pc = "write"
                    /\ HitOf(tasks'[i].pending, cache[HashOf_file(tasks[i].doc)])
                    /\ llm_calls' = llm_calls /\ llm_sem' = llm_sem
                    /\ cache' = cache]_vars
    /\ [](prog = "db" =>
            \A k \in 1..Len(results) :
                (results[k] # NoResult /\ results[k].method = "hash_cache") =>
                    llm_calls[results[k].domain_id].pass = 0)
    /\ [](prog = "file" =>
            \A i \in 1..Len(tasks) :
                (tasks[i].pending # NoResult /\ tasks[i].pending.method = "hash_cache") =>
                    llm_calls[i].pass = 0)

\* shop2.com stored as a hit on the entry made for shop1.com, the entry still
\* in the cache.
C27_HitStored ==
    /\ prog = "db"
    /\ \E k \in 1..Len(db.classifications) :
          LET c == db.classifications[k] IN
          /\ c.method = "hash_cache"
          /\ c.fqdn = <<"shop2", "com">>
          /\ c.content_hash \in DOMAIN cache
          /\ HitOf(c, cache[c.content_hash])
          /\ cache[c.content_hash].example_fqdn = <<"shop1", "com">>

LlmResultOf(result, fqdn) ==
    result # NoResult /\ result.method = "llm" /\ result.fqdn = fqdn

InsertedFor_db ==
    LET domain == selected[idx] IN
    /\ pc = "llm"
    /\ LlmResultOf(ReturnedResult, domain.fqdn)
    /\ HashOf_db(domain) # <<>>
    /\ cache' = Put(cache, HashOf_db(domain),
                    [category |-> ReturnedResult.category,
                     confidence |-> ReturnedResult.confidence,
                     example_fqdn |-> domain.fqdn])

InsertedFor_file(i) ==
    /\ tasks[i].pc = "llm" /\ tasks'[i].pc = "write"
    /\ LlmResultOf(tasks'[i].pending, tasks[i].doc.fqdn)
    /\ HashOf_file(tasks[i].doc) # <<>>
    /\ cache' = Put(cache, HashOf_file(tasks[i].doc),
                    [category |-> tasks'[i].pending.category,
                     confidence |-> tasks'[i].pending.confidence,
                     example_fqdn |-> tasks[i].doc.fqdn])

\* C28: the cache changes only by the insert that follows a successful
\* inference result for a record with that fingerprint (never on a failed
\* inference, a rule match or a cache hit), and every successful inference
\* on a fingerprinted record makes that insert.
C28_InsertOnlyAfterLlmResult ==
    /\ [][(prog = "db" /\ pc # "load") =>
            /\ cache' # cache => InsertedFor_db
            /\ (pc = "llm" /\ LlmResultOf(ReturnedResult, selected[idx].fqdn)
                  /\ HashOf_db(selected[idx]) # <<>>) => InsertedFor_db]_vars
    /\ [][(prog = "file" /\ pc = "gather") =>
            /\ cache' # cache => \E i \in 1..Len(tasks) : InsertedFor_file(i)
            /\ \A i \in 1..Len(tasks) :
                 (/\ tasks[i].pc = "llm" /\ tasks'[i].pc = "write"
                  /\ LlmResultOf(tasks'[i].pending, tasks[i].doc.fqdn)
                  /\ HashOf_file(tasks[i].doc) # <<>>) => InsertedFor_file(i)]_vars

\* Length of the normalized title, meta description and snippet put together
CombinedLength(doc) ==
    Len(Strip(norm_text(doc.http.title) \o <<" ">>
              \o norm_text(doc.http.meta_description) \o <<" ">>
              \o norm_text(doc.http.body_snippet)))

\* C29: a record whose combined normalized title, meta description and
\* snippet are shorter than min_content_length_for_hash gets no fingerprint
\* (so no cache lookup and no cache insert: it goes straight to inference),
\* and a record at or above the minimum always gets one.
C29_FingerprintByCombinedLength ==
    prog = "rules" =>
        \A k \in 1..Len(results) :
            (results[k].content_hash = <<>>)
                <=> (CombinedLength(tasks.doc) < min_content_length_for_hash)

\* A confidence of the store-backed classifier, in percent
InUnit_db(confidence) == confidence \in 0..100

\* A confidence of the file-based classifier, a JSON value in percent
InUnit_file(confidence) == confidence.t = "num" /\ confidence.n \in 0..100

\* C30: every stored classification result and every fingerprint-cache
\* entry has a confidence between 0 and 1, whatever confidence the reply of
\* the inference endpoint carries.
C30_ConfidenceInUnitInterval ==
    /\ prog = "db" =>
          /\ \A k \in 1..Len(db.classifications) :
                InUnit_db(db.classifications[k].confidence)
          /\ \A k \in 1..Len(db.content_hash_cache) :
                InUnit_db(db.content_hash_cache[k].confidence)
          /\ \A h \in DOMAIN cache : InUnit_db(cache[h].confidence)
    /\ prog = "file" =>
          /\ \A i \in 1..Len(out_files) :
                out_files[i] # NoResult => InUnit_file(out_files[i].confidence)
          /\ \A h \in DOMAIN cache : InUnit_file(cache[h].confidence)
          /\ \A h \in DOMAIN cache_file : InUnit_file(cache_file[h].confidence)

(***************************************************************************)
(* build_content_fingerprint of both classifiers applied to two records    *)
(***************************************************************************)
HashNames == { <<"parked-domain-1", "com">>, <<"parked-domain-2", "net">> }

HashTitles == { <<"x">>, <<" ", "X">>, <<"y">> }

HashMetas == { <<>>, <<"d">> }

\* Snippets: ShopText, ShopText in capitals with wider gaps, another text of
\* the same length, and a short one.
HashSnippets ==
    { ShopText,
      Rep("X", 30) \o <<" ", "\t", " ">> \o Rep("y", 29) \o <<"\n">>,
      Rep("y", 30) \o <<" ">> \o Rep("x", 29),
      <<"o", "k">> }

HashDocs ==
    { [fqdn |-> fqdn, dns |-> Resolved, http |-> Html(200, title, meta, snippet)] :
        fqdn \in HashNames, title \in HashTitles, meta \in HashMetas,
        snippet \in HashSnippets }

InitHash ==
    /\ prog = "hash"
    /\ tasks \in { <<one, other>> : one \in HashDocs, other \in HashDocs }
    /\ results = <<>>
    /\ db = EmptyDb /\ lastTxn = NoTxn /\ pc = None
    /\ pos = 0 /\ dns_sem = 0 /\ http_sem = 0 /\ stats = None /\ pool = None
    /\ mode = None /\ iteration = 0 /\ cache = <<>> /\ selected = <<>> /\ idx = 0
    /\ metrics = None /\ llm_sem = 0 /\ llm_calls = <<>>
    /\ last_reply = None
    /\ out_files = <<>> /\ error_log = <<>> /\ cache_file = <<>> /\ file_sem = 0

\* scripts/wxawebcat_classifier_db.py: the content hash of both records
HashDb ==
    /\ prog = "hash" /\ ~Applied("db")
    /\ results' = Append(results,
           [classifier |-> "db",
            hash |-> [k \in 1..2 |-> build_content_fingerprint_db(tasks[k].http)]])
    /\ UNCHANGED notRules

\* wxawebcat_fetcher_enhanced.py: fingerprint and compute_hash of both records
HashFile ==
    /\ prog = "hash" /\ ~Applied("file")
    /\ results' = Append(results,
           [classifier |-> "file",
            hash |-> [k \in 1..2 |-> HashOf_file(tasks[k])]])
    /\ UNCHANGED notRules

NextHash == HashDb \/ HashFile

SpecHash == InitHash /\ [][NextHash]_vars

\* The normalized (title, meta description, truncated snippet) of a record
NormTriple(classifier, doc) ==
    IF classifier = "db"
    THEN << Collapse(LowerText(Strip(doc.http.title))),
            Collapse(LowerText(Strip(doc.http.meta_description))),
            Collapse(LowerText(Strip(Take(doc.http.body_snippet, 500)))) >>
    ELSE << norm_text(doc.http.title), norm_text(doc.http.meta_description),
            norm_text(doc.http.body_snippet) >>

FieldsApart(classifier, one, other) ==
    {f \in 1..3 : NormTriple(classifier, one)[f] # NormTriple(classifier, other)[f]}

\* C31: the fingerprint hash depends on the normalized (title, meta
\* description, snippet) only: two records with equal triples get the same
\* hash whatever their domain names, and two records whose triples differ in
\* one field get different hashes.
C31_HashOfTripleOnly ==
    prog = "hash" =>
        \A k \in 1..Len(results) :
            LET apart == FieldsApart(results[k].classifier, tasks[1], tasks[2])
                hash == results[k].hash
            IN /\ apart = {} => hash[1] = hash[2]
               /\ (Cardinality(apart) = 1 /\ hash[1] # <<>> /\ hash[2] # <<>>)
                     => hash[1] # hash[2]

\* Two domains whose pages differ in case and white space only, with one
\* hash from either classifier.
C31_TwoDomainsOneHash ==
    /\ prog = "hash" /\ Len(results) = 2
    /\ tasks[1].fqdn # tasks[2].fqdn
    /\ tasks[1].http # tasks[2].http
    /\ \A k \in 1..2 : results[k].hash[1] = results[k].hash[2]
                       /\ results[k].hash[1] # <<>>

InsideDns == {i \in 1..Len(tasks) : tasks[i].pc = "dns"}

\* C32: at every point of a fetch run at most dns_concurrency domains are
\* inside the DNS section and at most fetch_concurrency inside the HTTP
\* section, and the permits out and the permits left add up to the
\* configured number.
C32_SectionsBounded ==
    prog = "fetch" =>
        /\ Cardinality(InsideDns) <= dns_concurrency
        /\ Cardinality(HoldingHttp) <= fetch_concurrency
        /\ dns_sem + Cardinality(InsideDns) = dns_concurrency
        /\ http_sem + Cardinality(HoldingHttp) = fetch_concurrency

\* Both sections full while another task of the batch waits for a permit.
C32_BothSectionsFull ==
    /\ prog = "fetch" /\ pc = "gather"
    /\ Cardinality(InsideDns) = dns_concurrency
    /\ Cardinality(HoldingHttp) = fetch_concurrency
    /\ \E i \in 1..Len(tasks) : tasks[i].pc \in {"start", "http_wait"}

(***************************************************************************)
(* classify_batch and the store                                            *)
(***************************************************************************)
RowsOf(conn, result) ==
    {k \in 1..Len(conn.classifications) :
        /\ conn.classifications[k].domain_id = result.domain_id
        /\ conn.classifications[k].method = result.method
        /\ conn.classifications[k].category = result.category
        /\ conn.classifications[k].confidence = result.confidence}

\* Every non-empty result of the batch has one row in the store, and had none
\* before.
WrittenOnce(before, after, batch) ==
    \A k \in 1..Len(batch) :
        batch[k] # NoResult =>
            /\ RowsOf(before, batch[k]) = {}
            /\ Cardinality(RowsOf(after, batch[k])) = 1

ProcessOneReturns ==
    /\ prog = "db" /\ pc \in {"classify", "llm"} /\ idx <= Len(selected)
    /\ idx' = idx + 1

\* C33: every non-empty result process_one returns is written in exactly one
\* committed batch: a batch that reaches batch_size is committed before the
\* next domain is processed, the last partial batch is committed, and no
\* result is dropped or written twice (the store itself refusing no
\* statement).
C33_EveryResultInOneBatch ==
    /\ [](prog = "db" /\ pc \in {"classify", "llm"} => Len(results) < batch_size)
    /\ [][(ProcessOneReturns /\ Len(results) + 1 < batch_size) =>
            /\ results' = Append(results, ReturnedResult)
            /\ db' = db]_vars
    /\ [][(ProcessOneReturns /\ Len(results) + 1 >= batch_size
             /\ lastTxn'.fault = 0) =>
            /\ lastTxn'.results = Append(results, ReturnedResult)
            /\ WrittenOnce(db, db', lastTxn'.results)
            /\ results' = <<>>]_vars
    /\ [][(/\ prog = "db" /\ pc = "classify" /\ idx > Len(selected)
           /\ pc' # pc /\ results # <<>> /\ lastTxn'.fault = 0) =>
            WrittenOnce(db, db', results)]_vars

Referenced(conn) == {conn.classifications[k].domain_id : k \in 1..Len(conn.classifications)}

\* C34: in every committed state of the store the classifier works on, a
\* domain row has classified = 1 exactly when a classifications row
\* references it.
C34_FlagIffClassification ==
    prog = "db" =>
        \A k \in 1..Len(db.domains) :
            db.domains[k].classified = 1 <=> db.domains[k].id \in Referenced(db)

\* A batch was committed and a later one rolled back in the middle: some
\* rows are classified, some are not.
C34_CommittedThenRolledBack ==
    /\ prog = "db"
    /\ lastTxn # NoTxn /\ lastTxn.raised /\ lastTxn.fault > 1
    /\ Referenced(db) # {}
    /\ \E k \in Unclassified(db) : db.domains[k].fetch_status = "success"

\* C35: an upsert of a fetched batch leaves the id and the classified flag of
\* every row already in the store, and every classifications row, as they
\* were; a domain classified before the upsert is not among the domains to
\* classify after it.
C35_UpsertKeepsClassification ==
    [][prog = "fetch" =>
        /\ db'.classifications = db.classifications
        /\ db'.content_hash_cache = db.content_hash_cache
        /\ Len(db'.domains) >= Len(db.domains)
        /\ \A k \in 1..Len(db.domains) :
            /\ db'.domains[k].id = db.domains[k].id
            /\ db'.domains[k].fqdn = db.domains[k].fqdn
            /\ db'.domains[k].classified = db.domains[k].classified
            /\ db.domains[k].classified = 1 =>
                 \A j \in 1..Len(get_domains_to_classify(db')) :
                     get_domains_to_classify(db')[j].domain_id # db.domains[k].id]_vars

\* A committed batch carried new payload for a domain that was classified.
C35_ClassifiedRefetched ==
    /\ prog = "fetch"
    /\ lastTxn.kind = "domains" /\ ~lastTxn.raised
    /\ \E k \in 1..Len(lastTxn.before.domains) :
        /\ lastTxn.before.domains[k].classified = 1
        /\ db.domains[k].classified = 1
        /\ db.domains[k].fetch_status = "success"
        /\ db.domains[k].http_data # lastTxn.before.domains[k].http_data
        /\ \E j \in 1..Len(lastTxn.results) :
               lastTxn.results[j].fqdn = db.domains[k].fqdn

\* C36: a one-shot run of the store-backed classifier ends by returning 0
\* whatever the store holds; it never ends in an exception raised by
\* main_async itself after classify_batch selected no domain.
C36_OneShotReturnsZero ==
    (prog = "db" /\ mode = "oneshot") => pc # "crashed"

WaitingDns == {i \in 1..Len(tasks) : tasks[i].pc = "start"}

WaitingHttp == {i \in 1..Len(tasks) : tasks[i].pc = "http_wait"}

\* C37: the permits out of the DNS semaphore are those of the tasks inside
\* the lookup and the permits out of the HTTP semaphore those of the tasks
\* with a request outstanding, so no task has one of each; no step moves
\* both semaphores; and a task that finds a semaphore empty waits for a task
\* that is past every acquire of its section.
C37_OnePermitAtATime ==
    /\ [](prog = "fetch" =>
            /\ InsideDns \cap HoldingHttp = {}
            /\ dns_concurrency - dns_sem = Cardinality(InsideDns)
            /\ fetch_concurrency - http_sem = Cardinality(HoldingHttp)
            /\ (WaitingDns # {} /\ dns_sem = 0) => InsideDns # {}
            /\ (WaitingHttp # {} /\ http_sem = 0) => HoldingHttp # {}
            /\ (pc = "gather" /\ ~GatherDone) =>
                  \/ InsideDns # {} \/ HoldingHttp # {}
                  \/ (WaitingDns # {} /\ dns_sem > 0)
                  \/ (WaitingHttp # {} /\ http_sem > 0))
    /\ [][prog = "fetch" => (dns_sem' = dns_sem \/ http_sem' = http_sem)]_vars
    /\ [][(prog = "fetch" /\ http_sem' < http_sem) =>
            \E i \in WaitingHttp : /\ tasks[i].dns_entries = 1
                                   /\ tasks'[i].pc = "https"
                                   /\ dns_sem' = dns_sem]_vars

\* A task that left the lookup waits for the HTTP permit another task
\* holds, while a third task is inside the lookup.
C37_WaitsForHttpBesideLookup ==
    /\ prog = "fetch" /\ pc = "gather"
    /\ http_sem = 0 /\ dns_sem = 0
    /\ WaitingHttp # {} /\ HoldingHttp # {} /\ InsideDns # {}

PassReturned == prog = "db" /\ pc \in {"done", "sleep"}

\* C38: when classify_batch has returned normally, every entry of the
\* in-memory fingerprint cache is a row of content_hash_cache with the same
\* category, confidence and example domain: what a restarted classifier
\* loads from the store is the cache the pass ended with.
C38_CacheIsInStore ==
    PassReturned =>
        /\ \A h \in DOMAIN cache :
              \E k \in 1..Len(db.content_hash_cache) :
                 /\ db.content_hash_cache[k].content_hash = h
                 /\ db.content_hash_cache[k].category = cache[h].category
                 /\ db.content_hash_cache[k].confidence = cache[h].confidence
                 /\ db.content_hash_cache[k].example_fqdn = cache[h].example_fqdn
        /\ LoadCache(db.content_hash_cache, Len(db.content_hash_cache)) = cache

\* A pass that started with an empty cache table has returned after it put
\* an inference result into the cache.
C38_PassFilledCache ==
    /\ PassReturned
    /\ lastTxn.kind = "classifications" /\ ~lastTxn.raised
    /\ lastTxn.before.content_hash_cache = <<>>
    /\ DOMAIN cache # {}
    /\ \E k \in 1..Len(lastTxn.results) :
          /\ lastTxn.results[k] # NoResult
          /\ lastTxn.results[k].method = "llm"
          /\ lastTxn.results[k].content_hash \in DOMAIN cache

(***************************************************************************)
(* Result files of the file-based classifier under crashes                 *)
(* (wxawebcat_fetcher_enhanced.py, safe_write_json and process_one)        *)
(***************************************************************************)
\* process_one, line 478: cfg.out_dir / (path.stem + ".class.json")
OutPath(i) == <<Records[i].fqdn, ".class.json">>

\* A write that opens the final path itself.
TmpPath_in_place(path) == path

\* safe_write_json, line 269: path.with_suffix(path.suffix + ".tmp")
TmpPath(path) == Append(path, ".tmp")

\* json.dump (line 271) writes the text of a result piece by piece.
JsonText(i) == <<"{", Records[i].fqdn, "}">>

IsPrefix(s, t) == Len(s) <= Len(t) /\ s = SubSeq(t, 1, Len(s))

Unlink(files, path) == [p \in (DOMAIN files) \ {path} |-> files[p]]

notWrite ==
    <<db, lastTxn, fetchVars, mode, cache, selected, idx, results, metrics,
      llm_sem, llm_calls, last_reply, error_log, cache_file, file_sem>>

WTasks0 == [i \in 1..file_concurrency |-> [pc |-> "start"]]

InitWrite ==
    /\ prog = "write"
    /\ pc = "gather"
    /\ iteration = 1
    /\ tasks = WTasks0
    /\ out_files = <<>>
    /\ db = EmptyDb /\ lastTxn = NoTxn
    /\ pos = 0 /\ dns_sem = 0 /\ http_sem = 0 /\ stats = None /\ pool = None
    /\ mode = None /\ cache = <<>> /\ selected = <<>> /\ idx = 0
    /\ results = <<>> /\ metrics = None /\ llm_sem = 0 /\ llm_calls = <<>>
    /\ last_reply = None
    /\ error_log = <<>> /\ cache_file = <<>> /\ file_sem = 0

\* process_one, lines 480-483: the resume check on the final path.
ResumeCheck(i) ==
    /\ prog = "write" /\ pc = "gather"
    /\ tasks[i].pc = "start"
    /\ tasks' = [tasks EXCEPT ![i].pc = IF OutPath(i) \in DOMAIN out_files
                                        THEN "skipped" ELSE "open"]
    /\ UNCHANGED <<prog, pc, iteration, out_files, notWrite>>

\* safe_write_json, lines 269-272, one system call at a time: open the
\* temporary path for writing (created or truncated), write the next piece
\* of the text, rename the temporary path onto the final one.
WriteStep(i) ==
    /\ prog = "write" /\ pc = "gather"
    /\ tasks[i].pc \in {"open", "dump", "replace"}
    /\ LET path == OutPath(i)
           tmp == TmpPath(path)
       IN IF tasks[i].pc = "open"
          THEN /\ out_files' = Put(out_files, tmp, <<>>)
               /\ tasks' = [tasks EXCEPT ![i].pc = "dump"]
          ELSE IF tasks[i].pc = "dump"
          THEN LET text == Append(out_files[tmp], JsonText(i)[Len(out_files[tmp]) + 1])
               IN /\ out_files' = Put(out_files, tmp, text)
                  /\ tasks' = [tasks EXCEPT ![i].pc = IF text = JsonText(i)
                                                      THEN "replace" ELSE "dump"]
          ELSE /\ out_files' = Put(Unlink(out_files, tmp), path, out_files[tmp])
               /\ tasks' = [tasks EXCEPT ![i].pc = "done"]
    /\ UNCHANGED <<prog, pc, iteration, notWrite>>

\* The process dies while workers are running.  What a worker wrote through
\* its open file object and did not flush is lost: the temporary file holds
\* a prefix of it.
WriteCrash ==
    /\ prog = "write" /\ pc = "gather"
    /\ \E i \in 1..Len(tasks) : tasks[i].pc \notin {"done", "skipped"}
    /\ \E cut \in [1..Len(tasks) -> 0..Len(JsonText(1))] :
        out_files' =
            [p \in DOMAIN out_files |->
                IF \E i \in 1..Len(tasks) : tasks[i].pc = "dump" /\ p = TmpPath(OutPath(i))
                THEN LET i == CHOOSE i \in 1..Len(tasks) :
                                 tasks[i].pc = "dump" /\ p = TmpPath(OutPath(i))
                     IN SubSeq(out_files[p], 1, Min(cut[i], Len(out_files[p])))
                ELSE out_files[p]]
    /\ pc' = "crashed"
    /\ UNCHANGED <<prog, iteration, tasks, notWrite>>

\* The script is started again over the same directories.
WriteRestart ==
    /\ prog = "write"
    /\ \/ pc = "crashed"
       \/ pc = "gather" /\ \A i \in 1..Len(tasks) : tasks[i].pc \in {"done", "skipped"}
    /\ iteration < MaxIter
    /\ iteration' = iteration + 1
    /\ pc' = "gather"
    /\ tasks' = WTasks0
    /\ UNCHANGED <<prog, out_files, notWrite>>

NextWrite ==
    \/ \E i \in 1..Len(tasks) : ResumeCheck(i)
    \/ \E i \in 1..Len(tasks) : WriteStep(i)
    \/ WriteCrash
    \/ WriteRestart

SpecWrite == InitWrite /\ [][NextWrite]_vars

\* C39: a file at the final path of a result holds the whole result, through
\* every crash and restart, and the resume check skips a record only when
\* its whole result is there.
C39_FinalFileComplete ==
    /\ [](prog = "write" =>
            \A i \in 1..Len(tasks) :
                OutPath(i) \in DOMAIN out_files => out_files[OutPath(i)] = JsonText(i))
    /\ [][prog = "write" =>
            \A i \in 1..Len(tasks) :
                (tasks[i].pc = "start" /\ tasks'[i].pc = "skipped") =>
                    /\ OutPath(i) \in DOMAIN out_files
                    /\ out_files[OutPath(i)] = JsonText(i)]_vars

\* After a crash that left one result half written at its temporary path,
\* the next run skipped a finished record and crashed again.
C39_CrashedTwiceMidWrite ==
    /\ prog = "write" /\ pc = "crashed" /\ iteration > 1
    /\ \E i \in 1..Len(tasks) : tasks[i].pc = "skipped"
    /\ \E i \in 1..Len(tasks) :
          /\ OutPath(i) \notin DOMAIN out_files
          /\ TmpPath(OutPath(i)) \in DOMAIN out_files
          /\ out_files[TmpPath(OutPath(i))] # <<>>
          /\ out_files[TmpPath(OutPath(i))] # JsonText(i)

====
